---- MODULE Spec2Model ----
(***************************************************************************)
(* A model of the deterministic core of splitwise-multimodal-ai:           *)
(*   - the text protocol written by LLMService.process_bill / call_llm_api *)
(*     and read by parse_bill_input,                                       *)
(*   - the split calculation calculate_split / split_instacart_bill.       *)
(*                                                                         *)
(* Text is a sequence of atoms.  The punctuation the code inspects (the    *)
(* newline, the space, ':', ',', '-', '.', the digits) is one atom per     *)
(* character; a run of letters that none of the code's string operations   *)
(* can cut ("PERSONS", "Vikram", "oat") is one atom.  Every string         *)
(* operation of the code (re.search, strip, split, `in`, float, str.join,  *)
(* the format specs) is an operator on such sequences.                     *)
(*                                                                         *)
(* Amounts are exact rationals <<n, d>> (d > 0, lowest terms).  Python's   *)
(* floats round each operation to 53 bits; for the amounts of this model   *)
(* (below 10^4, a handful of operations) the accumulated error is below    *)
(* 10^-9 and cannot move a result across the code's 0.01 tolerance.        *)
(***************************************************************************)
EXTENDS Integers, Sequences, FiniteSets, TLC

(***************************************************************************)
(* Bounds of the model.                                                    *)
(***************************************************************************)
\* longest items list of a bill handed to the formatter or the calculator
MaxItems == 2
\* most lines in the body of a section of a submitted text
MaxLines == 2
\* most files of one upload
MaxFiles == 2
\* most calls of get_model in one run of the program
MaxCalls == 3

(***************************************************************************)
(* Rationals.                                                              *)
(***************************************************************************)
Abs(n) == IF n < 0 THEN -n ELSE n

RECURSIVE Gcd(_, _)
Gcd(a, b) == IF b = 0 THEN a ELSE Gcd(b, a % b)

\* the rational n/d in lowest terms with a positive denominator
Rat(n, d) ==
  LET g == Gcd(Abs(n), Abs(d))
      s == IF d < 0 THEN -1 ELSE 1
  IN <<s * (n \div g), s * (d \div g)>>

Zero == <<0, 1>>

RAdd(x, y) ==
  LET g == Gcd(x[2], y[2])
  IN Rat(x[1] * (y[2] \div g) + y[1] * (x[2] \div g), x[2] * (y[2] \div g))

RNeg(x) == <<-x[1], x[2]>>

RSub(x, y) == RAdd(x, RNeg(y))

RMul(x, y) ==
  LET a == Rat(x[1], y[2])
      b == Rat(y[1], x[2])
  IN Rat(a[1] * b[1], a[2] * b[2])

\* x / y for y # 0
RDiv(x, y) == RMul(x, Rat(y[2], y[1]))

RLess(x, y) == x[1] * y[2] < y[1] * x[2]

RAbs(x) == <<Abs(x[1]), x[2]>>

(***************************************************************************)
(* Atoms.                                                                  *)
(***************************************************************************)
NL == "\n"
SP == " "
COLON == ":"
COMMA == ","
DASH == "-"
DOT == "."
Digits == <<"0", "1", "2", "3", "4", "5", "6", "7", "8", "9">>
DigitSet == {Digits[i] : i \in 1..10}
DigitVal(c) == (CHOOSE i \in 1..10 : Digits[i] = c) - 1

\* the characters str.strip() removes
IsSpace(c) == c \in {SP, NL}

(***************************************************************************)
(* Python string operations on atom sequences.                             *)
(***************************************************************************)
RECURSIVE LStrip(_)
LStrip(s) == IF s # <<>> /\ IsSpace(Head(s)) THEN LStrip(Tail(s)) ELSE s

RECURSIVE RStrip(_)
RStrip(s) ==
  IF s # <<>> /\ IsSpace(s[Len(s)]) THEN RStrip(SubSeq(s, 1, Len(s) - 1)) ELSE s

\* str.strip()
Strip(s) == RStrip(LStrip(s))

\* c in s
Contains(s, c) == \E i \in 1..Len(s) : s[i] = c

\* the index of the first c in s, 0 when there is none
IndexOf(s, c) ==
  IF Contains(s, c) THEN CHOOSE i \in 1..Len(s) : s[i] = c /\ \A j \in 1..(i - 1) : s[j] # c
  ELSE 0

\* s.split(c): the pieces between the occurrences of c, at least one piece
RECURSIVE Split(_, _)
Split(s, c) ==
  LET i == IndexOf(s, c)
  IN IF i = 0 THEN <<s>>
     ELSE <<SubSeq(s, 1, i - 1)>> \o Split(SubSeq(s, i + 1, Len(s)), c)

\* s.split(c, 1) for an s that contains c: <<before, after>> the first c
SplitFirst(s, c) ==
  LET i == IndexOf(s, c)
  IN <<SubSeq(s, 1, i - 1), SubSeq(s, i + 1, Len(s))>>

\* sep.join(parts)
RECURSIVE Join(_, _)
Join(parts, sep) ==
  IF parts = <<>> THEN <<>>
  ELSE IF Len(parts) = 1 THEN parts[1]
  ELSE parts[1] \o sep \o Join(Tail(parts), sep)

\* whether pat occurs in s at index i
MatchAt(s, pat, i) ==
  /\ i >= 1
  /\ i + Len(pat) - 1 <= Len(s)
  /\ SubSeq(s, i, i + Len(pat) - 1) = pat

\* the least index >= from at which pat occurs in s, 0 when there is none
Find(s, pat, from) ==
  LET hits == {i \in from..Len(s) : MatchAt(s, pat, i)}
  IN IF hits = {} THEN 0 ELSE CHOOSE i \in hits : \A j \in hits : i <= j

None == [tag |-> "None"]

\* re.search(open + '(.*?)' + close, s, re.DOTALL): the leftmost match starts at
\* the first occurrence of `open` that some occurrence of `close` follows, and the
\* lazy group ends at the first such occurrence.  The group, or None.
SearchBetween(s, open, close) ==
  LET i == Find(s, open, 1)
      j == IF i = 0 THEN 0 ELSE Find(s, close, i + Len(open))
  IN IF i = 0 \/ j = 0 THEN None
     ELSE [tag |-> "match", group |-> SubSeq(s, i + Len(open), j - 1)]

\* re.search(open + '(.*)', s, re.DOTALL): the greedy group runs to the end
SearchToEnd(s, open) ==
  LET i == Find(s, open, 1)
  IN IF i = 0 THEN None
     ELSE [tag |-> "match", group |-> SubSeq(s, i + Len(open), Len(s))]

(***************************************************************************)
(* Python dicts: insertion-ordered sequences of <<key, value>> with        *)
(* distinct keys.                                                          *)
(***************************************************************************)
DictKeys(d) == {d[i][1] : i \in 1..Len(d)}

DictHas(d, k) == \E i \in 1..Len(d) : d[i][1] = k

\* d[k] for a key of d
DictGet(d, k) == d[CHOOSE i \in 1..Len(d) : d[i][1] = k][2]

\* d[k] = v: a present key keeps its place, a new key is appended
DictPut(d, k, v) ==
  IF DictHas(d, k) THEN [i \in 1..Len(d) |-> IF d[i][1] = k THEN <<k, v>> ELSE d[i]]
  ELSE Append(d, <<k, v>>)

\* list(d.values())
DictValues(d) == [i \in 1..Len(d) |-> d[i][2]]

\* dict equality: the same keys with the same values, in any order
DictEq(d, e) ==
  /\ DictKeys(d) = DictKeys(e)
  /\ \A k \in DictKeys(d) : DictGet(d, k) = DictGet(e, k)

(***************************************************************************)
(* Numbers as text.                                                        *)
(***************************************************************************)
RECURSIVE Pow10(_)
Pow10(k) == IF k = 0 THEN 1 ELSE 10 * Pow10(k - 1)

AllDigits(s) == \A i \in 1..Len(s) : s[i] \in DigitSet

RECURSIVE DigitsToInt(_)
DigitsToInt(s) ==
  IF s = <<>> THEN 0 ELSE 10 * DigitsToInt(SubSeq(s, 1, Len(s) - 1)) + DigitVal(s[Len(s)])

RECURSIVE IntToDigits(_)
IntToDigits(n) ==
  IF n < 10 THEN <<Digits[n + 1]>> ELSE IntToDigits(n \div 10) \o <<Digits[(n % 10) + 1]>>

\* the k digits of n < 10^k, zeros leading
RECURSIVE PadDigits(_, _)
PadDigits(n, k) ==
  IF k = 0 THEN <<>> ELSE PadDigits(n \div 10, k - 1) \o <<Digits[(n % 10) + 1]>>

ValueError == [tag |-> "ValueError"]

\* float(s): surrounding whitespace is ignored; of Python's grammar the atoms can
\* spell [-]digits[.[digits]] and [-].digits; any other text raises ValueError
FloatOf(s) ==
  LET t == Strip(s)
      neg == t # <<>> /\ t[1] = DASH
      body == IF neg THEN Tail(t) ELSE t
      dot == IndexOf(body, DOT)
      ip == IF dot = 0 THEN body ELSE SubSeq(body, 1, dot - 1)
      fp == IF dot = 0 THEN <<>> ELSE SubSeq(body, dot + 1, Len(body))
      mag == DigitsToInt(ip) * Pow10(Len(fp)) + DigitsToInt(fp)
  IN IF AllDigits(ip) /\ AllDigits(fp) /\ Len(ip) + Len(fp) >= 1
     THEN [tag |-> "float", val |-> Rat(IF neg THEN -mag ELSE mag, Pow10(Len(fp)))]
     ELSE ValueError

\* the number of decimals str(x) prints: the fewest, and at least one ("3.0").
\* Defined for the amounts of this model, which are decimals of at most 4 places
\* (repr prints the shortest decimal that reads back as the same float).
FracLen(x) == CHOOSE k \in 1..4 : Pow10(k) % x[2] = 0 /\ \A j \in 1..(k - 1) : Pow10(j) % x[2] # 0

\* f"{x}" for a float x
FloatStr(x) ==
  LET k == FracLen(x)
      mag == (Abs(x[1]) * Pow10(k)) \div x[2]
  IN (IF x[1] < 0 THEN <<DASH>> ELSE <<>>)
       \o IntToDigits(mag \div Pow10(k)) \o <<DOT>> \o PadDigits(mag % Pow10(k), k)

\* a / b (a >= 0, b > 0) rounded to the nearest integer, a tie to the even one
RoundHalfEven(a, b) ==
  LET q == a \div b
      r == a % b
  IN IF 2 * r < b THEN q
     ELSE IF 2 * r > b THEN q + 1
     ELSE IF q % 2 = 0 THEN q ELSE q + 1

\* f"{x:.2f}": the float's exact value rounded to 2 decimals, a tie to even; the
\* sign of a negative x is printed even when the digits round to zero ("-0.00").
\* The model's fee amounts are whole cents or binary fractions, whose floats are
\* exact or round like their decimal.
Format2f(x) ==
  LET cents == RoundHalfEven(Abs(x[1]) * 100, x[2])
  IN (IF x[1] < 0 THEN <<DASH>> ELSE <<>>)
       \o IntToDigits(cents \div 100) \o <<DOT>> \o PadDigits(cents % 100, 2)

(***************************************************************************)
(* parse_bill_input.                                                       *)
(***************************************************************************)
Hdr(w) == <<DASH, DASH, DASH, SP, w, SP, DASH, DASH, DASH>>

TaxName == <<"Tax">>
DeliveryName == <<"Delivery", SP, "Fee">>
TipName == <<"Tip">>
expected_fees == <<TaxName, DeliveryName, TipName>>

\* section.group(1).strip().split('\n')
SectionLines(group) == Split(Strip(group), NL)

\* the loop over the PERSONS lines: the persons dict
RECURSIVE ParsePersons(_, _)
ParsePersons(lines, persons) ==
  IF lines = <<>> THEN persons
  ELSE LET line == Head(lines)
           kv == SplitFirst(line, COLON)
       IN IF Contains(line, COLON)
          THEN ParsePersons(Tail(lines), DictPut(persons, Strip(kv[1]), Strip(kv[2])))
          ELSE ParsePersons(Tail(lines), persons)

\* the loop over the ITEMS lines: the items list, or None at the first price
\* float() rejects
RECURSIVE ParseItems(_, _)
ParseItems(lines, items) ==
  IF lines = <<>> THEN [tag |-> "list", val |-> items]
  ELSE LET line == Head(lines)
           kv == SplitFirst(line, COLON)
           price == FloatOf(Strip(kv[2]))
       IN IF Contains(line, COLON)
          THEN IF price = ValueError THEN None
               ELSE ParseItems(Tail(lines),
                               Append(items, [name |-> Strip(kv[1]), price |-> price.val]))
          ELSE ParseItems(Tail(lines), items)

\* a fee filter that reads no fee line (BadNumberFails tells it from IsExpectedFee)
NoFeeExpected(name) == FALSE

IsExpectedFee(name) == \E i \in 1..Len(expected_fees) : expected_fees[i] = name

\* the loop over the FEES lines: the fees dict, or None at the first amount of an
\* expected fee that float() rejects; a line of another name is skipped unread
RECURSIVE ParseFees(_, _)
ParseFees(lines, fees) ==
  IF lines = <<>> THEN [tag |-> "dict", val |-> fees]
  ELSE LET line == Head(lines)
           kv == SplitFirst(line, COLON)
           fee_name == Strip(kv[1])
           amount == FloatOf(Strip(kv[2]))
       IN IF Contains(line, COLON) /\ IsExpectedFee(fee_name)
          THEN IF amount = ValueError THEN None
               ELSE ParseFees(Tail(lines), DictPut(fees, fee_name, amount.val))
          ELSE ParseFees(Tail(lines), fees)

\* the loop that sets the fees missing from the dict to 0.0
RECURSIVE DefaultFees(_, _)
DefaultFees(fees, i) ==
  IF i > Len(expected_fees) THEN fees
  ELSE IF DictHas(fees, expected_fees[i]) THEN DefaultFees(fees, i + 1)
  ELSE DefaultFees(DictPut(fees, expected_fees[i], Zero), i + 1)

\* [abbr.strip() for abbr in parts if abbr.strip()]
RECURSIVE StripNonEmpty(_)
StripNonEmpty(parts) ==
  IF parts = <<>> THEN <<>>
  ELSE (IF Strip(Head(parts)) # <<>> THEN <<Strip(Head(parts))>> ELSE <<>>)
         \o StripNonEmpty(Tail(parts))

\* a list of the comma-separated parts as they stand, unstripped
\* (ShareLineStored tells it from AbbrList)
AbbrListUnstripped(abbrs_str) == Split(abbrs_str, COMMA)

\* abbr_list of a share line's text after the ':'
AbbrList(abbrs_str) == StripNonEmpty(Split(abbrs_str, COMMA))

\* a filter that keeps every listed abbreviation (ReferentialInvariant tells it
\* from ValidAbbrs)
AllAbbrs(abbr_list, persons) == abbr_list

\* valid_abbrs: the abbreviations of abbr_list that are keys of persons, in order
RECURSIVE ValidAbbrs(_, _)
ValidAbbrs(abbr_list, persons) ==
  IF abbr_list = <<>> THEN <<>>
  ELSE (IF DictHas(persons, Head(abbr_list)) THEN <<Head(abbr_list)>> ELSE <<>>)
         \o ValidAbbrs(Tail(abbr_list), persons)

\* variant: a pass that stores a share line whatever item it names
ShareLineAnyItem(line, items, persons, item_shares) ==
  LET kv == SplitFirst(line, COLON)
      item_name == Strip(kv[1])
      valid_abbrs == ValidAbbrs(AbbrList(kv[2]), persons)
  IN IF ~Contains(line, COLON) THEN item_shares
     ELSE IF valid_abbrs # <<>> THEN DictPut(item_shares, item_name, valid_abbrs)
     ELSE item_shares

\* variant: a pass that keeps the entry an earlier share line left
ShareLineFirstWins(line, items, persons, item_shares) ==
  LET kv == SplitFirst(line, COLON)
      item_name == Strip(kv[1])
      valid_abbrs == ValidAbbrs(AbbrList(kv[2]), persons)
  IN IF ~Contains(line, COLON) THEN item_shares
     ELSE IF ~(\E i \in 1..Len(items) : items[i].name = item_name) THEN item_shares
     ELSE IF valid_abbrs # <<>> /\ ~DictHas(item_shares, item_name)
          THEN DictPut(item_shares, item_name, valid_abbrs)
     ELSE item_shares

\* one pass of the loop over the SHARES lines
ShareLine(line, items, persons, item_shares) ==
  LET kv == SplitFirst(line, COLON)
      item_name == Strip(kv[1])
      valid_abbrs == ValidAbbrs(AbbrList(kv[2]), persons)
  IN IF ~Contains(line, COLON) THEN item_shares
     ELSE IF ~(\E i \in 1..Len(items) : items[i].name = item_name) THEN item_shares
     ELSE IF valid_abbrs # <<>> THEN DictPut(item_shares, item_name, valid_abbrs)
     ELSE item_shares

\* the loop over the SHARES lines: the item_shares dict
RECURSIVE ParseShares(_, _, _, _)
ParseShares(lines, items, persons, item_shares) ==
  IF lines = <<>> THEN item_shares
  ELSE ParseShares(Tail(lines), items, persons,
                   ShareLine(Head(lines), items, persons, item_shares))

\* a PERSONS search that takes any first line for the header (MissingHeaderFails
\* tells it from PersonsSection)
PersonsSectionAnyHeader(input) == SearchBetween(input, <<NL>>, <<NL>> \o Hdr("ITEMS"))

\* variant: a PERSONS search that does not look for the ITEMS header after it
PersonsSectionToEnd(input) == SearchToEnd(input, Hdr("PERSONS") \o <<NL>>)

PersonsSection(input) ==
  SearchBetween(input, Hdr("PERSONS") \o <<NL>>, <<NL>> \o Hdr("ITEMS"))

ItemsSection(input) ==
  SearchBetween(input, Hdr("ITEMS") \o <<NL>>, <<NL>> \o Hdr("FEES"))

FeesSection(input) ==
  SearchBetween(input, Hdr("FEES") \o <<NL>>, <<NL>> \o Hdr("SHARES"))

SharesSection(input) == SearchToEnd(input, Hdr("SHARES") \o <<NL>>)

\* all([persons_section, items_section, fees_section, shares_section])
AllSections(input) ==
  /\ PersonsSection(input) # None
  /\ ItemsSection(input) # None
  /\ FeesSection(input) # None
  /\ SharesSection(input) # None

\* a check that lets an empty persons dict pass (NoPersonEntryFails tells it from
\* NoPersons)
PersonsOptional(persons) == FALSE

\* if not persons
NoPersons(persons) == persons = <<>>

\* parse_bill_input(input_string): the parsed_data dict, or None
parse_bill_input(input) ==
  IF ~AllSections(input) THEN None
  ELSE
    LET persons == ParsePersons(SectionLines(PersonsSection(input).group), <<>>)
        items == ParseItems(SectionLines(ItemsSection(input).group), <<>>)
        fees == ParseFees(SectionLines(FeesSection(input).group), <<>>)
    IN IF NoPersons(persons) THEN None
       ELSE IF items = None THEN None
       ELSE IF fees = None THEN None
       ELSE [tag |-> "dict",
             persons |-> persons,
             items |-> items.val,
             fees |-> DefaultFees(fees.val, 1),
             item_shares |-> ParseShares(SectionLines(SharesSection(input).group),
                                         items.val, persons, <<>>)]

(***************************************************************************)
(* The formatter of LLMService.process_bill / call_llm_api.                *)
(***************************************************************************)
\* [f"{abbr}: {name}" for abbr, name in bill_data.persons.items()]
PersonLines(persons) == [i \in 1..Len(persons) |-> persons[i][1] \o <<COLON, SP>> \o persons[i][2]]

\* [f"{item['name']}: {item['price']}" for item in bill_data.items]
ItemLines(items) ==
  [i \in 1..Len(items) |-> items[i].name \o <<COLON, SP>> \o FloatStr(items[i].price)]

\* f"{name}: {calculated_fees[name]:.2f}"
FeeLine(fees, name) == name \o <<COLON, SP>> \o Format2f(DictGet(fees, name))

\* share lines whose sharers a space alone separates (RoundTrip tells them from
\* ShareLines)
ShareLinesSpaced(item_shares) ==
  [i \in 1..Len(item_shares) |->
     item_shares[i][1] \o <<COLON, SP>> \o Join(item_shares[i][2], <<SP>>)]

\* [f"{item}: {', '.join(sharers)}" for item, sharers in bill_data.item_shares.items()]
ShareLines(item_shares) ==
  [i \in 1..Len(item_shares) |->
     item_shares[i][1] \o <<COLON, SP>> \o Join(item_shares[i][2], <<COMMA, SP>>)]

\* formatted_output: the four sections, a blank line between them
FormatBill(persons, items, fees, item_shares) ==
  Hdr("PERSONS") \o <<NL>> \o Join(PersonLines(persons), <<NL>>) \o <<NL, NL>>
    \o Hdr("ITEMS") \o <<NL>> \o Join(ItemLines(items), <<NL>>) \o <<NL, NL>>
    \o Hdr("FEES") \o <<NL>>
    \o FeeLine(fees, TaxName) \o <<NL>>
    \o FeeLine(fees, DeliveryName) \o <<NL>>
    \o FeeLine(fees, TipName) \o <<NL, NL>>
    \o Hdr("SHARES") \o <<NL>> \o Join(ShareLines(item_shares), <<NL>>)

(***************************************************************************)
(* calculate_split / split_instacart_bill.                                 *)
(***************************************************************************)
\* d.get(k, default)
DictGetOr(d, k, default) == IF DictHas(d, k) THEN DictGet(d, k) ELSE default

\* item_price_lookup = {item['name']: item['price'] for item in items}
RECURSIVE ItemPriceLookup(_, _)
ItemPriceLookup(items, lookup) ==
  IF items = <<>> THEN lookup
  ELSE ItemPriceLookup(Tail(items), DictPut(lookup, Head(items).name, Head(items).price))

\* {full_name: 0.0 for full_name in all_people}
RECURSIVE ZeroShares(_, _)
ZeroShares(all_people, shares) ==
  IF all_people = <<>> THEN shares
  ELSE ZeroShares(Tail(all_people), DictPut(shares, Head(all_people), Zero))

\* what a float division by zero raises, standing where the quotient would
ZeroDivisionError == <<0, 0>>

\* cost_per_sharer = item_price / num_sharers
CostPerSharer(item_price, num_sharers) ==
  IF num_sharers = 0 THEN ZeroDivisionError ELSE RDiv(item_price, <<num_sharers, 1>>)

\* the loop over an item's sharers: a sharer whose abbreviation persons_map does
\* not hold, or holds with an empty full name, is passed over
RECURSIVE AddToSharers(_, _, _, _)
AddToSharers(sharer_abbrs, persons_map, cost_per_sharer, shares) ==
  IF sharer_abbrs = <<>> THEN shares
  ELSE LET abbr == Head(sharer_abbrs)
           full_name == DictGetOr(persons_map, abbr, <<>>)
       IN AddToSharers(Tail(sharer_abbrs), persons_map, cost_per_sharer,
            IF DictHas(persons_map, abbr) /\ full_name # <<>>
            THEN DictPut(shares, full_name, RAdd(DictGet(shares, full_name), cost_per_sharer))
            ELSE shares)

\* a test that counts an entry of any price (UncountedEntryAddsNothing tells it
\* from IsShared)
SharedWhenListed(item_price, num_sharers) == num_sharers > 0

\* whether an item_shares entry is counted: num_sharers > 0 and item_price > 0
IsShared(item_price, num_sharers) == num_sharers > 0 /\ RLess(Zero, item_price)

\* step 1, the loop over item_shares: person_item_cost_shares and
\* total_shared_item_cost
RECURSIVE ItemCostLoop(_, _, _, _)
ItemCostLoop(item_shares, persons_map, lookup, acc) ==
  IF item_shares = <<>> THEN acc
  ELSE LET item_name == Head(item_shares)[1]
           sharer_abbrs == Head(item_shares)[2]
           item_price == DictGetOr(lookup, item_name, Zero)
           num_sharers == Len(sharer_abbrs)
       IN ItemCostLoop(Tail(item_shares), persons_map, lookup,
            IF IsShared(item_price, num_sharers)
            THEN [shares |-> AddToSharers(sharer_abbrs, persons_map,
                                          CostPerSharer(item_price, num_sharers), acc.shares),
                  total |-> RAdd(acc.total, item_price)]
            ELSE acc)

\* a tax share that is the whole tax (TaxProportional tells it from TaxShare)
WholeTaxShare(item_cost_share, total_shared_item_cost, total_tax) == total_tax

\* (item_cost_share / total_shared_item_cost) * total_tax
TaxShare(item_cost_share, total_shared_item_cost, total_tax) ==
  IF total_shared_item_cost = Zero THEN ZeroDivisionError
  ELSE RMul(RDiv(item_cost_share, total_shared_item_cost), total_tax)

\* step 2: person_tax_shares
PersonTaxShares(person_item_cost_shares, total_shared_item_cost, total_tax) ==
  [i \in 1..Len(person_item_cost_shares) |->
     <<person_item_cost_shares[i][1],
       IF RLess(Zero, total_shared_item_cost)
       THEN TaxShare(person_item_cost_shares[i][2], total_shared_item_cost, total_tax)
       ELSE Zero>>]

\* a fee share that is the whole of the other fees (Conservation tells it from
\* EqualFeeShare)
WholeFeeShare(total_other_fees, num_people) == total_other_fees

\* a fee share that divides unguarded (NeverRaises tells it from EqualFeeShare)
UnguardedFeeShare(total_other_fees, num_people) ==
  IF num_people = 0 THEN ZeroDivisionError ELSE RDiv(total_other_fees, <<num_people, 1>>)

\* equal_fee_share = total_other_fees / num_people if num_people > 0 else 0
EqualFeeShare(total_other_fees, num_people) ==
  IF num_people > 0 THEN RDiv(total_other_fees, <<num_people, 1>>) ELSE Zero

\* a total that is never below zero (NegativeFeesFlow tells it from TotalBill)
ClampedTotalBill(item_share, tax_share, fees_share) ==
  IF RLess(RAdd(RAdd(item_share, tax_share), fees_share), Zero) THEN Zero
  ELSE RAdd(RAdd(item_share, tax_share), fees_share)

\* variant: a total that leaves the tax share out
TotalBillWithoutTax(item_share, tax_share, fees_share) == RAdd(item_share, fees_share)

\* total_bill = item_share + tax_share + fees_share
TotalBill(item_share, tax_share, fees_share) == RAdd(RAdd(item_share, tax_share), fees_share)

\* variant: a loop that charges a full name the equal share once per
\* abbreviation
RECURSIVE PersonTotalBillsPerAbbr(_, _, _, _, _)
PersonTotalBillsPerAbbr(all_people, item_shares_of, tax_shares_of, equal_fee_share, bills) ==
  IF all_people = <<>> THEN bills
  ELSE LET full_name == Head(all_people)
       IN PersonTotalBillsPerAbbr(Tail(all_people), item_shares_of, tax_shares_of,
            equal_fee_share,
            DictPut(bills, full_name,
                    IF DictHas(bills, full_name)
                    THEN RAdd(DictGet(bills, full_name), equal_fee_share)
                    ELSE RAdd(RAdd(DictGetOr(item_shares_of, full_name, Zero),
                                   DictGetOr(tax_shares_of, full_name, Zero)),
                              equal_fee_share)))

\* step 4, the loop over all_people: person_total_bills
RECURSIVE PersonTotalBills(_, _, _, _, _)
PersonTotalBills(all_people, item_shares_of, tax_shares_of, equal_fee_share, bills) ==
  IF all_people = <<>> THEN bills
  ELSE LET full_name == Head(all_people)
       IN PersonTotalBills(Tail(all_people), item_shares_of, tax_shares_of, equal_fee_share,
            DictPut(bills, full_name,
                    TotalBill(DictGetOr(item_shares_of, full_name, Zero),
                              DictGetOr(tax_shares_of, full_name, Zero),
                              equal_fee_share)))

\* sum(xs) of a list of amounts
RECURSIVE Sum(_)
Sum(xs) == IF xs = <<>> THEN Zero ELSE RAdd(Head(xs), Sum(Tail(xs)))

\* a comparison that never finds a mismatch (VerificationWarning tells it from
\* Mismatch)
NoMismatch(calculated_total_bill, original_total_bill) == FALSE

\* abs(calculated_total_bill - original_total_bill) > 0.01
Mismatch(calculated_total_bill, original_total_bill) ==
  RLess(<<1, 100>>, RAbs(RSub(calculated_total_bill, original_total_bill)))

\* [item['name'] for item in items if item['name'] not in item_shares]
RECURSIVE UnassignedItems(_, _)
UnassignedItems(items, item_shares) ==
  IF items = <<>> THEN <<>>
  ELSE (IF DictHas(item_shares, Head(items).name) THEN <<>> ELSE <<Head(items).name>>)
         \o UnassignedItems(Tail(items), item_shares)

\* a division of the call divides by zero: that of a counted entry's price by its
\* number of sharers, that of an item-cost share by total_shared_item_cost, or
\* that of the other fees by the number of people
DividesByZero(persons_map, items, fees, item_shares) ==
  LET item_price_lookup == ItemPriceLookup(items, <<>>)
      price(i) == DictGetOr(item_price_lookup, item_shares[i][1], Zero)
  IN \/ \E i \in 1..Len(item_shares) :
          /\ IsShared(price(i), Len(item_shares[i][2]))
          /\ CostPerSharer(price(i), Len(item_shares[i][2])) = ZeroDivisionError
     \/ LET all_people == DictValues(persons_map)
            step1 == ItemCostLoop(item_shares, persons_map, item_price_lookup,
                                  [shares |-> ZeroShares(all_people, <<>>), total |-> Zero])
            tax == PersonTaxShares(step1.shares, step1.total, DictGetOr(fees, TaxName, Zero))
        IN \/ \E i \in 1..Len(tax) : tax[i][2] = ZeroDivisionError
           \/ EqualFeeShare(RAdd(DictGetOr(fees, DeliveryName, Zero),
                                 DictGetOr(fees, TipName, Zero)),
                            Len(all_people)) = ZeroDivisionError

\* arguments left with item_shares cleared (InputsUnchanged tells it from
\* InputsAfter)
InputsWithSharesCleared(persons_map, items, fees, item_shares) ==
  [persons_map |-> persons_map, items |-> items, fees |-> fees, item_shares |-> <<>>]

\* the four arguments as the call leaves them: it reads them (a comprehension
\* over items, .values(), .keys() and .get() of persons_map, .get() of fees,
\* .items() and `in` of item_shares) and assigns to none of them
InputsAfter(persons_map, items, fees, item_shares) ==
  [persons_map |-> persons_map, items |-> items, fees |-> fees, item_shares |-> item_shares]

\* calculate_split(persons_map, items, fees, item_shares): what it returns
\* (person_total_bills), the values it computes on the way and what it logs; or
\* the exception it logs and raises again
calculate_split(persons_map, items, fees, item_shares) ==
  IF DividesByZero(persons_map, items, fees, item_shares)
  THEN [tag |-> "raise", error |-> "ZeroDivisionError",
        inputs_after |-> InputsAfter(persons_map, items, fees, item_shares)]
  ELSE
  LET item_price_lookup == ItemPriceLookup(items, <<>>)
      all_people == DictValues(persons_map)
      step1 == ItemCostLoop(item_shares, persons_map, item_price_lookup,
                            [shares |-> ZeroShares(all_people, <<>>), total |-> Zero])
      total_tax == DictGetOr(fees, TaxName, Zero)
      person_tax_shares == PersonTaxShares(step1.shares, step1.total, total_tax)
      total_other_fees == RAdd(DictGetOr(fees, DeliveryName, Zero), DictGetOr(fees, TipName, Zero))
      equal_fee_share == EqualFeeShare(total_other_fees, Len(all_people))
      person_total_bills ==
        PersonTotalBills(all_people, step1.shares, person_tax_shares, equal_fee_share, <<>>)
      original_total_bill ==
        RAdd(RAdd(Sum([i \in 1..Len(items) |-> items[i].price]), total_tax), total_other_fees)
      calculated_total_bill == Sum(DictValues(person_total_bills))
      mismatch == Mismatch(calculated_total_bill, original_total_bill)
  IN [tag |-> "return",
      inputs_after |-> InputsAfter(persons_map, items, fees, item_shares),
      person_total_bills |-> person_total_bills,
      person_item_cost_shares |-> step1.shares,
      total_shared_item_cost |-> step1.total,
      person_tax_shares |-> person_tax_shares,
      equal_fee_share |-> equal_fee_share,
      original_total_bill |-> original_total_bill,
      calculated_total_bill |-> calculated_total_bill,
      warnings |->
        (IF ~RLess(Zero, step1.total) /\ RLess(Zero, total_tax) THEN {"tax not allocated"} ELSE {})
          \cup (IF mismatch THEN {"total mismatch"} ELSE {}),
      unassigned_items |-> IF mismatch THEN UnassignedItems(items, item_shares) ELSE <<>>]

(***************************************************************************)
(* The second implementation, bill_parser.py: parse_bill_input and         *)
(* split_instacart_bill, written down from its own text.                   *)
(***************************************************************************)
\* for line in persons_section.group(1).strip().split('\n')
RECURSIVE PersonsLoop(_, _, _)
PersonsLoop(lines, n, persons) ==
  IF n > Len(lines) THEN persons
  ELSE IF Contains(lines[n], COLON)
       THEN PersonsLoop(lines, n + 1,
                        DictPut(persons, Strip(SplitFirst(lines[n], COLON)[1]),
                                Strip(SplitFirst(lines[n], COLON)[2])))
       ELSE PersonsLoop(lines, n + 1, persons)

\* for line in items_section.group(1).strip().split('\n'): None stands for the
\* return None of the except branch
RECURSIVE ItemsLoop(_, _, _)
ItemsLoop(lines, n, items) ==
  IF n > Len(lines) THEN [tag |-> "list", val |-> items]
  ELSE IF ~Contains(lines[n], COLON) THEN ItemsLoop(lines, n + 1, items)
  ELSE IF FloatOf(Strip(SplitFirst(lines[n], COLON)[2])) = ValueError THEN None
  ELSE ItemsLoop(lines, n + 1,
                 items \o <<[name |-> Strip(SplitFirst(lines[n], COLON)[1]),
                             price |-> FloatOf(Strip(SplitFirst(lines[n], COLON)[2])).val]>>)

\* for line in fees_section.group(1).strip().split('\n')
RECURSIVE FeesLoop(_, _, _)
FeesLoop(lines, n, fees) ==
  IF n > Len(lines) THEN [tag |-> "dict", val |-> fees]
  ELSE IF ~Contains(lines[n], COLON) THEN FeesLoop(lines, n + 1, fees)
  ELSE IF Strip(SplitFirst(lines[n], COLON)[1]) \notin {TaxName, DeliveryName, TipName}
       THEN FeesLoop(lines, n + 1, fees)
  ELSE IF FloatOf(Strip(SplitFirst(lines[n], COLON)[2])) = ValueError THEN None
  ELSE FeesLoop(lines, n + 1,
                DictPut(fees, Strip(SplitFirst(lines[n], COLON)[1]),
                        FloatOf(Strip(SplitFirst(lines[n], COLON)[2])).val))

\* variant: the fees of the text without the missing ones set to 0
FeesAsWritten(fees) == fees

\* for fee in expected_fees: if fee not in parsed_data['fees']
FeesFilledIn(fees) ==
  LET tax == IF DictHas(fees, TaxName) THEN fees ELSE DictPut(fees, TaxName, Zero)
      delivery == IF DictHas(tax, DeliveryName) THEN tax ELSE DictPut(tax, DeliveryName, Zero)
  IN IF DictHas(delivery, TipName) THEN delivery ELSE DictPut(delivery, TipName, Zero)

\* valid_abbrs of a share line: the stripped, non-empty parts of its abbrs_str
\* that are keys of persons
ValidOfLine(line, persons) ==
  LET parts == Split(SplitFirst(line, COLON)[2], COMMA)
      valid == {k \in 1..Len(parts) :
                  Strip(parts[k]) # <<>> /\ DictHas(persons, Strip(parts[k]))}
      Nth(i) == CHOOSE k \in valid : Cardinality({m \in valid : m < k}) = i - 1
  IN [i \in 1..Cardinality(valid) |-> Strip(parts[Nth(i)])]

\* for line in shares_section.group(1).strip().split('\n')
RECURSIVE SharesLoop(_, _, _, _, _)
SharesLoop(lines, n, items, persons, item_shares) ==
  IF n > Len(lines) THEN item_shares
  ELSE IF ~Contains(lines[n], COLON) THEN SharesLoop(lines, n + 1, items, persons, item_shares)
  ELSE IF Strip(SplitFirst(lines[n], COLON)[1]) \notin {items[j].name : j \in 1..Len(items)}
       THEN SharesLoop(lines, n + 1, items, persons, item_shares)
  ELSE IF ValidOfLine(lines[n], persons) = <<>>
       THEN SharesLoop(lines, n + 1, items, persons, item_shares)
  ELSE SharesLoop(lines, n + 1, items, persons,
                  DictPut(item_shares, Strip(SplitFirst(lines[n], COLON)[1]),
                          ValidOfLine(lines[n], persons)))

\* bill_parser.parse_bill_input(input_string)
bill_parser_parse_bill_input(input_string) ==
  LET persons_section ==
        SearchBetween(input_string, Hdr("PERSONS") \o <<NL>>, <<NL>> \o Hdr("ITEMS"))
      items_section ==
        SearchBetween(input_string, Hdr("ITEMS") \o <<NL>>, <<NL>> \o Hdr("FEES"))
      fees_section ==
        SearchBetween(input_string, Hdr("FEES") \o <<NL>>, <<NL>> \o Hdr("SHARES"))
      shares_section == SearchToEnd(input_string, Hdr("SHARES") \o <<NL>>)
  IN IF persons_section = None \/ items_section = None \/ fees_section = None
          \/ shares_section = None
     THEN None
     ELSE
       LET persons == PersonsLoop(Split(Strip(persons_section.group), NL), 1, <<>>)
           items == ItemsLoop(Split(Strip(items_section.group), NL), 1, <<>>)
           fees == FeesLoop(Split(Strip(fees_section.group), NL), 1, <<>>)
       IN IF persons = <<>> THEN None
          ELSE IF items = None THEN None
          ELSE IF fees = None THEN None
          ELSE [tag |-> "dict",
                persons |-> persons,
                items |-> items.val,
                fees |-> FeesFilledIn(fees.val),
                item_shares |-> SharesLoop(Split(Strip(shares_section.group), NL), 1,
                                           items.val, persons, <<>>)]

\* for abbr in sharer_abbrs: person_item_cost_shares[full_name] += cost_per_sharer
RECURSIVE SharersLoop(_, _, _, _, _)
SharersLoop(sharer_abbrs, n, persons_map, cost_per_sharer, person_item_cost_shares) ==
  IF n > Len(sharer_abbrs) THEN person_item_cost_shares
  ELSE IF DictHas(persons_map, sharer_abbrs[n]) /\ DictGet(persons_map, sharer_abbrs[n]) # <<>>
       THEN SharersLoop(sharer_abbrs, n + 1, persons_map, cost_per_sharer,
              DictPut(person_item_cost_shares, DictGet(persons_map, sharer_abbrs[n]),
                      RAdd(DictGet(person_item_cost_shares,
                                   DictGet(persons_map, sharer_abbrs[n])),
                           cost_per_sharer)))
       ELSE SharersLoop(sharer_abbrs, n + 1, persons_map, cost_per_sharer,
                        person_item_cost_shares)

\* for item_name, sharer_abbrs in item_shares.items(): the pair of shares,
\* person_item_cost_shares, and total, total_shared_item_cost
RECURSIVE ItemSharesLoop(_, _, _, _, _, _)
ItemSharesLoop(item_shares, n, persons_map, items, shares, total) ==
  IF n > Len(item_shares) THEN <<shares, total>>
  ELSE LET named == {j \in 1..Len(items) : items[j].name = item_shares[n][1]}
           item_price == IF named = {} THEN Zero
                         ELSE items[CHOOSE j \in named : \A k \in named : k <= j].price
           num_sharers == Len(item_shares[n][2])
       IN IF num_sharers > 0 /\ RLess(Zero, item_price)
          THEN ItemSharesLoop(item_shares, n + 1, persons_map, items,
                 SharersLoop(item_shares[n][2], 1, persons_map,
                             RDiv(item_price, <<num_sharers, 1>>), shares),
                 RAdd(total, item_price))
          ELSE ItemSharesLoop(item_shares, n + 1, persons_map, items, shares, total)

\* {full_name: 0.0 for full_name in all_people}
RECURSIVE ZeroPerName(_, _, _)
ZeroPerName(all_people, n, d) ==
  IF n > Len(all_people) THEN d ELSE ZeroPerName(all_people, n + 1, DictPut(d, all_people[n], Zero))

\* for full_name in all_people: person_total_bills[full_name] = total_bill,
\* with item_shares for person_item_cost_shares and tax_shares for
\* person_tax_shares
RECURSIVE TotalsLoop(_, _, _, _, _, _)
TotalsLoop(all_people, n, item_shares, tax_shares, equal_fee_share, person_total_bills) ==
  IF n > Len(all_people) THEN person_total_bills
  ELSE TotalsLoop(all_people, n + 1, item_shares, tax_shares, equal_fee_share,
                  DictPut(person_total_bills, all_people[n],
                          RAdd(RAdd(DictGet(item_shares, all_people[n]),
                                    DictGet(tax_shares, all_people[n])),
                               equal_fee_share)))

\* split_instacart_bill(persons_map, items, fees, item_shares): the
\* person_total_bills it returns
split_instacart_bill(persons_map, items, fees, item_shares) ==
  LET all_people == [i \in 1..Len(persons_map) |-> persons_map[i][2]]
      step1 == ItemSharesLoop(item_shares, 1, persons_map, items,
                              ZeroPerName(all_people, 1, <<>>), Zero)
      person_item_cost_shares == step1[1]
      total_shared_item_cost == step1[2]
      total_tax == IF DictHas(fees, TaxName) THEN DictGet(fees, TaxName) ELSE Zero
      person_tax_shares ==
        IF RLess(Zero, total_shared_item_cost)
        THEN [i \in 1..Len(person_item_cost_shares) |->
                <<person_item_cost_shares[i][1],
                  RMul(RDiv(person_item_cost_shares[i][2], total_shared_item_cost),
                       total_tax)>>]
        ELSE ZeroPerName(all_people, 1, <<>>)
      total_other_fees ==
        RAdd(IF DictHas(fees, DeliveryName) THEN DictGet(fees, DeliveryName) ELSE Zero,
             IF DictHas(fees, TipName) THEN DictGet(fees, TipName) ELSE Zero)
      num_people == Len(all_people)
      equal_fee_share ==
        IF num_people > 0 THEN RDiv(total_other_fees, <<num_people, 1>>) ELSE Zero
  IN TotalsLoop(all_people, 1, person_item_cost_shares, person_tax_shares, equal_fee_share,
                <<>>)

(***************************************************************************)
(* FeeCategorization.calculate_totals.                                     *)
(***************************************************************************)
\* variant: the amount of the first fee of the list for the sum of the list
FirstAmount(fee_items) == IF fee_items = <<>> THEN Zero ELSE fee_items[1].amount

\* sum(item.amount for item in fee_items)
SumAmounts(fee_items) == Sum([i \in 1..Len(fee_items) |-> fee_items[i].amount])

\* raw_fees.calculate_totals(): the dict literal, its keys in the written order
calculate_totals(raw_fees) ==
  << <<TaxName, SumAmounts(raw_fees.tax_items)>>,
     <<DeliveryName, SumAmounts(raw_fees.delivery_items)>>,
     <<TipName, SumAmounts(raw_fees.tip_items)>> >>

(***************************************************************************)
(* The inputs of the model.                                                *)
(***************************************************************************)
SeqsUpTo(S, n) == UNION {[1..k -> S] : k \in 0..n}

Distinct(xs) == \A i, j \in 1..Len(xs) : i # j => xs[i] # xs[j]

\* the abbreviations a bill may use, in the order persons lists them
Abbrs == <<"V", "A">>
\* the item names a bill may use
ItemNames == {<<"oat", SP, "milk">>, <<"cherries">>}

\* persons dicts: the first k abbreviations, each with a full name of `names`
PersonsOver(names) ==
  UNION {{[i \in 1..k |-> <<(<<Abbrs[i]>>), f[i]>>] : f \in [1..k -> names]} : k \in 0..Len(Abbrs)}

ItemNameRank(name) == IF name = <<"oat", SP, "milk">> THEN 1 ELSE 2

\* items lists of at most MaxItems entries; equal names may repeat, and the names
\* come in one order (a list's order matters to no operation but the formatter's,
\* which writes it as it is)
ItemsOver(prices) ==
  {l \in SeqsUpTo([name : ItemNames, price : prices], MaxItems) :
     \A i \in 1..(Len(l) - 1) : ItemNameRank(l[i].name) <= ItemNameRank(l[i + 1].name)}

\* sharer lists: distinct abbreviations in any order
SharerLists == {l \in SeqsUpTo({<<Abbrs[i]>> : i \in 1..Len(Abbrs)}, Len(Abbrs)) : Distinct(l)}

\* item_shares dicts: any of the item names, in either order, each with a sharer list
ItemSharesDicts ==
  {d \in SeqsUpTo(ItemNames \X SharerLists, Cardinality(ItemNames)) :
     Distinct([i \in 1..Len(d) |-> d[i][1]])}

\* fees dicts as parse_bill_input and calculate_totals build them
FeesDict(tax, delivery, tip) == << <<TaxName, tax>>, <<DeliveryName, delivery>>, <<TipName, tip>> >>

\* The arguments of a direct call of calculate_split / split_instacart_bill.  A
\* full name may be empty ("V:" parses to one) and two abbreviations may share one.
\* The calculation does not depend on the order of a dict or of a sharer list, nor
\* on which full name is which, so item_shares is taken in one order and the full
\* names in the order Vikram, Aniket.
SplitPrices == {Zero, <<599, 50>>, <<-3, 1>>}
SplitFees ==
  {FeesDict(Zero, Zero, Zero), FeesDict(<<1, 5>>, Zero, Zero), FeesDict(<<-1, 5>>, Zero, Zero),
   FeesDict(<<1, 5>>, <<3, 1>>, <<1, 1>>), FeesDict(<<-1, 5>>, <<3, 1>>, <<1, 1>>),
   FeesDict(<<-1, 5>>, <<3, 1>>, <<-4, 1>>)}
SplitPersons ==
  {p \in PersonsOver({<<"Vikram">>, <<"Aniket">>, <<>>}) :
     \A i \in 1..Len(p) : p[i][2] = <<"Aniket">> => \E j \in 1..(i - 1) : p[j][2] = <<"Vikram">>}
SplitItems == ItemsOver(SplitPrices)
SplitShares ==
  {d \in ItemSharesDicts :
     /\ \A i \in 1..(Len(d) - 1) : d[i][1] # <<"cherries">>
     /\ \A i \in 1..Len(d) : Len(d[i][2]) = 2 => d[i][2][1] = <<Abbrs[1]>>}

\* The structured bills the bill parser agent may return to process_bill.  The
\* full name " Bo" carries a leading space, and each item name comes with one
\* price.  Fee amounts are whole cents, eighths or a thousandth (see Format2f).
FeeItem(name, amount) == [name |-> name, amount |-> amount, category |-> <<"Tax">>]
RawFeesSet ==
  {[tax_items |-> <<>>, delivery_items |-> <<>>, tip_items |-> <<>>],
   [tax_items |-> <<FeeItem(<<"Tax">>, <<1, 5>>)>>, delivery_items |-> <<>>, tip_items |-> <<>>],
   [tax_items |-> <<FeeItem(<<"Tax">>, <<1, 8>>)>>,
    delivery_items |-> <<FeeItem(<<"Delivery">>, <<3, 1>>), FeeItem(<<"Discount">>, <<-3, 8>>)>>,
    tip_items |-> <<FeeItem(<<"Tip">>, <<-1, 1000>>)>>]}
\* bill_data.raw_fees.tax_items + ...delivery_items + ...tip_items
AllFees(raw_fees) == raw_fees.tax_items \o raw_fees.delivery_items \o raw_fees.tip_items
\* what the fee categorizer agent may return for the fees it is given: the same
\* categorization, the tip fees moved to Tax, a fee left out, a fee made up, and
\* a fee put in the place of one of those given
CategorizerOutputs(raw_fees) ==
  {raw_fees,
   [raw_fees EXCEPT !.tax_items = raw_fees.tax_items \o raw_fees.tip_items, !.tip_items = <<>>],
   [raw_fees EXCEPT !.tax_items = Tail(raw_fees.tax_items)],
   [raw_fees EXCEPT !.tip_items = raw_fees.tip_items \o <<FeeItem(<<"Service">>, <<5, 1>>)>>],
   [raw_fees EXCEPT !.tax_items = <<FeeItem(<<"Service">>, <<5, 1>>)>> \o Tail(raw_fees.tax_items)]}
\* len(categorized_fees) != len(all_raw_fees)
CountMismatch(categorized_fees, all_raw_fees) == Len(categorized_fees) # Len(all_raw_fees)
\* step 2: the raw_fees of bill_data after the categorization
CategorizedFees(raw_fees, output) ==
  IF AllFees(raw_fees) = <<>> THEN raw_fees
  ELSE IF CountMismatch(AllFees(output), AllFees(raw_fees)) THEN raw_fees
  ELSE output
BillPersons == PersonsOver({<<"Vikram">>, <<SP, "Bo">>})
BillItems ==
  {l \in ItemsOver({<<599, 50>>, <<3, 1>>}) :
     \A i \in 1..Len(l) : l[i].price = (IF l[i].name = <<"cherries">> THEN <<3, 1>> ELSE <<599, 50>>)}

(***************************************************************************)
(* The texts a caller may submit: the four sections, each a header line    *)
(* and a body of at most MaxLines lines, laid out with a blank line after  *)
(* each body (as the formatter does) or with none; the sections in any     *)
(* order, or one of them left out.                                         *)
(***************************************************************************)
Sections == <<"PERSONS", "ITEMS", "FEES", "SHARES">>

Line(key, value) == key \o <<COLON, SP>> \o value

SectionLineSet(sec) ==
  CASE sec = "PERSONS" ->
         {Line(<<"V">>, <<"Vikram">>), Line(<<"A">>, <<"Aniket">>), Line(<<"V">>, <<"Aniket">>),
          <<"abc">>}
    [] sec = "ITEMS" ->
         {Line(<<"oat", SP, "milk">>, <<"1", "1", DOT, "9", "8">>),
          Line(<<"cherries">>, <<"1", "1", DOT, "3", "3">>),
          Line(<<"cherries">>, <<"abc">>),
          <<"abc">>}
    [] sec = "FEES" ->
         {Line(TaxName, <<"0", DOT, "2", "0">>), Line(TaxName, <<"0", DOT, "3", "0">>),
          Line(TipName, <<"abc">>), Line(<<"Service">>, <<"abc">>)}
    [] sec = "SHARES" ->
         {Line(<<"oat", SP, "milk">>, <<"V", COMMA, SP, "A">>),
          Line(<<"oat", SP, "milk">>, <<"A", COMMA, "X">>),
          Line(<<"oat", SP, "milk">>, <<"X">>),
          Line(<<"cherries">>, <<"V">>),
          <<"abc">>}

SectionBodies(sec) == SeqsUpTo(SectionLineSet(sec), MaxLines)

\* the body of a well-formed section
DefaultBody(sec) ==
  CASE sec = "PERSONS" -> <<Line(<<"V">>, <<"Vikram">>), Line(<<"A">>, <<"Aniket">>)>>
    [] sec = "ITEMS" -> <<Line(<<"oat", SP, "milk">>, <<"1", "1", DOT, "9", "8">>),
                          Line(<<"cherries">>, <<"1", "1", DOT, "3", "3">>)>>
    [] sec = "FEES" -> <<Line(TaxName, <<"0", DOT, "2", "0">>)>>
    [] sec = "SHARES" -> <<Line(<<"oat", SP, "milk">>, <<"V", COMMA, SP, "A">>),
                           Line(<<"cherries">>, <<"V">>)>>

\* a few bodies of the PERSONS and of the ITEMS section
FewBodies(sec) ==
  CASE sec = "PERSONS" ->
         {<<>>, << <<"abc">> >>, <<Line(<<"V">>, <<"Vikram">>)>>, <<Line(<<"A">>, <<"Aniket">>)>>,
          DefaultBody("PERSONS"),
          <<Line(<<"V">>, <<"Vikram">>), Line(<<"V">>, <<"Aniket">>)>>}
    [] sec = "ITEMS" ->
         {<<>>, << <<"abc">> >>, <<Line(<<"oat", SP, "milk">>, <<"1", "1", DOT, "9", "8">>)>>,
          <<Line(<<"cherries">>, <<"1", "1", DOT, "3", "3">>)>>,
          DefaultBody("ITEMS"),
          <<Line(<<"oat", SP, "milk">>, <<"1", "1", DOT, "9", "8">>),
            Line(<<"oat", SP, "milk">>, <<"1", "1", DOT, "3", "3">>)>>}

AllDefault == [sec \in {Sections[k] : k \in 1..4} |-> DefaultBody(sec)]

\* the bodies of the four sections: the SHARES body varies with a few bodies of
\* the PERSONS or of the ITEMS section it refers to, or the body of the PERSONS,
\* the ITEMS or the FEES section varies alone; the rest is the default
BodyChoices ==
  UNION {{[AllDefault EXCEPT ![Sections[k]] = b, !["SHARES"] = bs] :
            b \in FewBodies(Sections[k]), bs \in SectionBodies("SHARES")} : k \in 1..2}
    \cup UNION {{[AllDefault EXCEPT ![Sections[k]] = b] : b \in SectionBodies(Sections[k])} :
                 k \in 1..3}

\* the lines of a text: per section of `order` its header, its body and, in the
\* blank layout, an empty line
RECURSIVE TextLines(_, _, _)
TextLines(order, bodies, blank) ==
  IF order = <<>> THEN <<>>
  ELSE <<Hdr(Head(order))>> \o bodies[Head(order)] \o (IF blank THEN << <<>> >> ELSE <<>>)
         \o TextLines(Tail(order), bodies, blank)

\* the text: its lines, each ended by a newline
RECURSIVE Unlines(_)
Unlines(lines) == IF lines = <<>> THEN <<>> ELSE Head(lines) \o <<NL>> \o Unlines(Tail(lines))

MakeText(order, bodies, blank) == Unlines(TextLines(order, bodies, blank))

\* the orders of the four sections, and the orders that leave one section out
SectionOrders == {o \in [1..4 -> {Sections[k] : k \in 1..4}] : Distinct(o)}
OrdersMissingOne ==
  {SubSeq(Sections, 1, k - 1) \o SubSeq(Sections, k + 1, 4) : k \in 1..4}

\* a header word written in the singular, the four header words with the k-th one
\* written so, and the default bodies under those words
Misspelt(sec) ==
  CASE sec = "PERSONS" -> "PERSON"
    [] sec = "ITEMS" -> "ITEM"
    [] sec = "FEES" -> "FEE"
    [] sec = "SHARES" -> "SHARE"
HeaderWords(k) == [i \in 1..4 |-> IF i = k THEN Misspelt(Sections[i]) ELSE Sections[i]]
BodiesUnder(k) ==
  [w \in {HeaderWords(k)[i] : i \in 1..4} |->
     DefaultBody(IF w = Misspelt(Sections[k]) THEN Sections[k] ELSE w)]

(***************************************************************************)
(* POST /process: the validation of the uploaded files.                    *)
(***************************************************************************)
\* settings.allowed_file_types, settings.max_file_size
allowed_file_types == {"image/jpeg", "image/jpg", "image/png"}
max_file_size == 10 * 1024 * 1024

\* the uploads of a request: files: List[UploadFile] = File(...) is a required
\* field, so the handler runs with at least one file
Uploads ==
  UNION {[1..n -> [content_type : allowed_file_types \cup {"application/pdf"},
                   size : {0, max_file_size, max_file_size + 1}]] : n \in 1..MaxFiles}

\* raise HTTPException(status_code=400, detail=...)
HTTPException(status_code, detail) ==
  [tag |-> "raise", class |-> "HTTPException", status_code |-> status_code, detail |-> detail]

\* for file in files: the first check that fails raises; None when all pass
RECURSIVE ValidateFiles(_, _)
ValidateFiles(files, n) ==
  IF n > Len(files) THEN None
  ELSE IF files[n].content_type \notin allowed_file_types
       THEN HTTPException(400, "File type not allowed")
  ELSE IF files[n].size > max_file_size
       THEN HTTPException(400, "File size exceeds maximum allowed size")
  ELSE ValidateFiles(files, n + 1)

\* what the client of /process is answered when the body of the try statement
\* raised: an exception the `except Exception` clause catches (HTTPException
\* and the errors of the LLM service are subclasses of Exception) becomes a
\* ProcessBillResponse sent with the status of a returned value, any other
\* reaches the framework, which answers an HTTPException with its status_code
ProcessBillFailure(raised) ==
  IF raised.class \in {"Exception", "HTTPException", "ValueError", "TypeError"}
  THEN [status_code |-> 200, success |-> FALSE, message |-> "Failed to process bill",
        error |-> raised]
  ELSE [status_code |-> IF raised.class = "HTTPException" THEN raised.status_code ELSE 500,
        success |-> FALSE, message |-> "", error |-> raised]

(***************************************************************************)
(* llm_factory: the caches of clients and models.                          *)
(***************************************************************************)
\* a value of os.getenv: a string or None
Str(text) == [tag |-> "str", val |-> text]
\* not x, for a string or None
Falsy(x) == x = None \/ x.val = <<>>

\* AZURE_CONFIG of config.py
AZURE_CONFIG ==
  <<<<"gpt-4o", [default_version |-> Str(<<"2024-12-01-preview">>),
                 deployment_name |-> "gpt-4o"]>>>>

\* LLMProviderType.AZURE_OPENAI
AZURE_OPENAI == [tag |-> "LLMProviderType", value |-> "azure_openai"]

\* the calls of get_model: its arguments, the environment it reads, and whether
\* the two constructors return
GetModelCalls ==
  [model_name : {"gpt-4o", "gpt-4"},
   provider_type : {AZURE_OPENAI, [tag |-> "str", value |-> "azure_openai"]},
   endpoint_env : {None, Str(<<>>), Str(<<"https", COLON, "//one">>),
                   Str(<<"https", COLON, "//two">>)},
   key_env : {None, Str(<<"key">>)},
   version_env : {None, Str(<<"2025-01-01">>)},
   constructed : BOOLEAN,
   accepted : BOOLEAN]

\* client_key = f"{endpoint}:{api_version}"
ClientKey(endpoint, api_version) == endpoint.val \o <<COLON>> \o api_version.val
\* cache_key = f"{provider_type.value}:{model_name}"
CacheKey(provider_type, model_name) == <<provider_type.value, COLON, model_name>>

\* variant: no key is found in a cache
NotCached(cache, key) == FALSE

\* client_key not in _client_cache, cache_key in _model_cache
IsCached(cache, key) == DictHas(cache, key)

\* a call that raises ValueError or what a constructor raised
Raises(class, client_cache, model_cache, made) ==
  [outcome |-> "raise", value |-> [tag |-> "raise", class |-> class],
   client_cache |-> client_cache, model_cache |-> model_cache, made |-> made]

\* _get_azure_client(endpoint, api_key, api_version): constructed says whether
\* AsyncAzureOpenAI(...) returns a client; made lists the instances the
\* constructors have returned so far
get_azure_client(endpoint, api_key, api_version, constructed, client_cache, model_cache, made) ==
  LET client_key == ClientKey(endpoint, api_version)
      client == [kind |-> "client", key |-> client_key, id |-> Len(made) + 1]
  IN IF ~IsCached(client_cache, client_key)
     THEN IF Falsy(endpoint) \/ Falsy(api_key)
          THEN Raises("ValueError", client_cache, model_cache, made)
          ELSE IF ~constructed
          THEN Raises("Exception", client_cache, model_cache, made)
          ELSE [outcome |-> "return", value |-> client,
                client_cache |-> DictPut(client_cache, client_key, client),
                model_cache |-> model_cache, made |-> Append(made, client)]
     ELSE [outcome |-> "return", value |-> DictGet(client_cache, client_key),
           client_cache |-> client_cache, model_cache |-> model_cache, made |-> made]

\* get_model(model_name, provider_type, **kwargs) in an environment env with
\* the three variables of the model's configuration set to env.endpoint_env,
\* env.key_env and env.version_env; accepted says whether OpenAIModel(...)
\* accepts the kwargs
get_model(model_name, provider_type, env, constructed, accepted, client_cache, model_cache, made) ==
  IF provider_type.tag # "LLMProviderType"
  THEN Raises("ValueError", client_cache, model_cache, made)
  ELSE LET cache_key == CacheKey(provider_type, model_name) IN
    IF IsCached(model_cache, cache_key)
    THEN [outcome |-> "return", value |-> DictGet(model_cache, cache_key),
          client_cache |-> client_cache, model_cache |-> model_cache, made |-> made]
    ELSE IF provider_type = AZURE_OPENAI
    THEN IF ~DictHas(AZURE_CONFIG, model_name)
         THEN Raises("ValueError", client_cache, model_cache, made)
         ELSE LET config == DictGet(AZURE_CONFIG, model_name)
                  endpoint == env.endpoint_env
                  api_key == env.key_env
                  api_version == IF env.version_env = None THEN config.default_version
                                 ELSE env.version_env
              IN IF Falsy(endpoint) \/ Falsy(api_key)
                 THEN Raises("ValueError", client_cache, model_cache, made)
                 ELSE LET got == get_azure_client(endpoint, api_key, api_version,
                                                  constructed, client_cache, model_cache,
                                                  made)
                          model_instance ==
                            [kind |-> "model", key |-> cache_key, id |-> Len(got.made) + 1]
                      IN IF got.outcome = "raise" THEN got
                         ELSE IF ~accepted
                         THEN Raises("TypeError", got.client_cache, model_cache, got.made)
                         ELSE [outcome |-> "return", value |-> model_instance,
                               client_cache |-> got.client_cache,
                               model_cache |-> DictPut(model_cache, cache_key,
                                                       model_instance),
                               made |-> Append(got.made, model_instance)]
    ELSE Raises("ValueError", client_cache, model_cache, made)

(***************************************************************************)
(* The state machine.                                                      *)
(***************************************************************************)
VARIABLES
  pc,                \* "idle", "formatted", "parsed", "done"; "upload", "validated",
                     \* "read", "answered" in POST /process; "factory" after get_model
  bill_data,         \* the structured bill process_bill returned, or None
  formatted_output,  \* the text handed to parse_bill_input
  parsed_data,       \* what parse_bill_input returned, or the arguments of a direct split
  result,            \* what calculate_split computed, returned and logged, or None
  response,          \* what the caller of the split step was answered, or None
  upload,            \* POST /process: the files, the reads and the LLM calls so far,
                     \* and the answer
  client_cache,      \* _client_cache
  model_cache,       \* _model_cache
  made,              \* the clients and models the constructors have returned
  last_call          \* the last call of get_model: its arguments, the caches
                     \* before it and its outcome

llm_factory == <<client_cache, model_cache, made, last_call>>
vars == <<pc, bill_data, formatted_output, parsed_data, result, response, upload,
          llm_factory>>

Init ==
  /\ pc = "idle"
  /\ bill_data = None
  /\ formatted_output = <<>>
  /\ parsed_data = None
  /\ result = None
  /\ response = None
  /\ upload = None
  /\ client_cache = <<>>
  /\ model_cache = <<>>
  /\ made = <<>>
  /\ last_call = [n |-> 0]

\* process_bill / call_llm_api from step 3 on, for a bill of the bill parser
\* agent: the fee totals replace the bill's fees and the bill is formatted
ProcessBill ==
  /\ pc = "idle"
  /\ \E persons \in BillPersons, items \in BillItems, item_shares \in ItemSharesDicts,
        extracted \in RawFeesSet :
     \E output \in (IF AllFees(extracted) = <<>> THEN {extracted}
                     ELSE CategorizerOutputs(extracted)) :
       LET raw_fees == CategorizedFees(extracted, output)
           calculated_fees == calculate_totals(raw_fees)
       IN /\ bill_data' = [tag |-> "bill", persons |-> persons, items |-> items,
                           fees |-> calculated_fees, item_shares |-> item_shares,
                           raw_fees |-> raw_fees,
                           all_raw_fees |-> AllFees(extracted),
                           categorized_fees |-> AllFees(output)]
          /\ formatted_output' = FormatBill(persons, items, calculated_fees, item_shares)
  /\ pc' = "formatted"
  /\ UNCHANGED <<upload, llm_factory, parsed_data, result, response>>

\* a caller hands a text of its own to the split step: the four sections in
\* order with bodies of its choice, or the default bodies with the sections in
\* another order, with one of them left out or with one header misspelt
SubmitText ==
  /\ pc = "idle"
  /\ \/ \E b \in BodyChoices, blank \in BOOLEAN :
          formatted_output' = MakeText(Sections, b, blank)
     \/ \E o \in SectionOrders \cup OrdersMissingOne, blank \in BOOLEAN :
          formatted_output' = MakeText(o, AllDefault, blank)
     \/ \E k \in 1..4, blank \in BOOLEAN :
          formatted_output' = MakeText(HeaderWords(k), BodiesUnder(k), blank)
  /\ pc' = "formatted"
  /\ UNCHANGED <<upload, llm_factory, bill_data, parsed_data, result, response>>

\* the split step parses the text
ParseBillInput ==
  /\ pc = "formatted"
  /\ parsed_data' = parse_bill_input(formatted_output)
  /\ pc' = "parsed"
  /\ UNCHANGED <<upload, llm_factory, bill_data, formatted_output, result, response>>

\* the answers of the two callers: CalculateSplitResponse of the endpoint, and
\* what step 3 of the app shows (the splits, or st.error)
SuccessResponse(caller, splits) ==
  [caller |-> caller, success |-> TRUE, splits |-> splits, error |-> ""]
\* variant: a failure answered as a success with an empty split
EmptySuccess(caller, error) ==
  [caller |-> caller, success |-> TRUE, splits |-> <<>>, error |-> ""]
FailureResponse(caller, error) ==
  [caller |-> caller, success |-> FALSE, splits |-> None, error |-> error]
\* an exception no handler catches
Uncaught(caller, error) == [caller |-> caller, tag |-> "exception", error |-> error]

\* if parsed_data: a dict parse_bill_input returned has its four keys
Truthy(data) == data # None
\* parsed_data['persons']: None is not subscriptable
Subscriptable(data) == data # None

\* step 3 of the app, when the parse succeeded: the split is computed and shown
CalculateSplit ==
  /\ pc = "parsed"
  /\ Truthy(parsed_data)
  /\ LET splits == calculate_split(parsed_data.persons, parsed_data.items, parsed_data.fees,
                                   parsed_data.item_shares)
     IN /\ result' = splits
        /\ response' = IF splits.tag = "raise" THEN Uncaught("app", splits.error)
                        ELSE SuccessResponse("app", splits.person_total_bills)
  /\ pc' = "done"
  /\ UNCHANGED <<upload, llm_factory, bill_data, formatted_output, parsed_data>>

\* step 3 of the app, when the parse failed: the error message
ParseFailed ==
  /\ pc = "parsed"
  /\ ~Truthy(parsed_data)
  /\ response' = FailureResponse("app", "Failed to parse structured output")
  /\ pc' = "done"
  /\ UNCHANGED <<upload, llm_factory, bill_data, formatted_output, parsed_data, result>>

\* the /calculate-split endpoint after its parse: the arguments of the call are
\* read off parsed_data, the split is computed, and any exception becomes a
\* response with success=False
EndpointCalculateSplit ==
  /\ pc = "parsed"
  /\ IF ~Subscriptable(parsed_data)
     THEN /\ response' = FailureResponse("endpoint", "TypeError")
          /\ UNCHANGED result
     ELSE LET splits == calculate_split(parsed_data.persons, parsed_data.items,
                                        parsed_data.fees, parsed_data.item_shares)
          IN /\ result' = splits
             /\ response' = IF splits.tag = "raise"
                             THEN FailureResponse("endpoint", splits.error)
                             ELSE SuccessResponse("endpoint", splits.person_total_bills)
  /\ pc' = "done"
  /\ UNCHANGED <<upload, llm_factory, bill_data, formatted_output, parsed_data>>

\* a direct call of calculate_split / split_instacart_bill
SplitBill ==
  /\ pc = "idle"
  /\ \E persons_map \in SplitPersons, items \in SplitItems, fees \in SplitFees,
        item_shares \in SplitShares :
       /\ parsed_data' = [tag |-> "dict", persons |-> persons_map, items |-> items,
                          fees |-> fees, item_shares |-> item_shares]
       /\ result' = calculate_split(persons_map, items, fees, item_shares)
  /\ pc' = "done"
  /\ UNCHANGED <<upload, llm_factory, bill_data, formatted_output, response>>

\* POST /process is called with files; nothing of them has been read
ReceiveUpload ==
  /\ pc = "idle"
  /\ \E files \in Uploads :
       upload' = [files |-> files, content_read |-> 0, llm_invoked |-> FALSE,
                  response |-> None]
  /\ pc' = "upload"
  /\ UNCHANGED <<bill_data, formatted_output, parsed_data, result, response, llm_factory>>

\* the validation loop of process_bill: a file that fails a check ends the
\* request with the answer to the raised HTTPException
ValidateUpload ==
  /\ pc = "upload"
  /\ LET raised == ValidateFiles(upload.files, 1)
     IN IF raised = None
        THEN /\ pc' = "validated"
             /\ UNCHANGED upload
        ELSE /\ pc' = "answered"
             /\ upload' = [upload EXCEPT !.response = ProcessBillFailure(raised)]
  /\ UNCHANGED <<bill_data, formatted_output, parsed_data, result, response, llm_factory>>

\* content = await file.read(), for the next file
ReadFile ==
  /\ pc = "validated"
  /\ upload' = [upload EXCEPT !.content_read = @ + 1]
  /\ pc' = IF upload.content_read + 1 = Len(upload.files) THEN "read" ELSE "validated"
  /\ UNCHANGED <<bill_data, formatted_output, parsed_data, result, response, llm_factory>>

\* await llm_service.process_bill(...): it returns or raises, and the request
\* is answered
InvokeLLM ==
  /\ pc = "read"
  /\ \E returned \in BOOLEAN :
       upload' = [upload EXCEPT !.llm_invoked = TRUE,
                                !.response =
                                  IF returned
                                  THEN [status_code |-> 200, success |-> TRUE,
                                        message |-> "Bill processed successfully",
                                        error |-> None]
                                  ELSE ProcessBillFailure(
                                         [tag |-> "raise", class |-> "Exception"])]
  /\ pc' = "answered"
  /\ UNCHANGED <<bill_data, formatted_output, parsed_data, result, response, llm_factory>>

\* a call of get_model
GetModel ==
  /\ pc \in {"idle", "factory"}
  /\ last_call.n < MaxCalls
  /\ \E c \in GetModelCalls :
       LET call == get_model(c.model_name, c.provider_type, c, c.constructed, c.accepted,
                             client_cache, model_cache, made)
       IN /\ client_cache' = call.client_cache
          /\ model_cache' = call.model_cache
          /\ made' = call.made
          /\ last_call' = [n |-> last_call.n + 1, model_name |-> c.model_name,
                           provider_type |-> c.provider_type,
                           model_cache_before |-> model_cache,
                           client_cache_before |-> client_cache,
                           made_before |-> made,
                           outcome |-> call.outcome, value |-> call.value]
  /\ pc' = "factory"
  /\ UNCHANGED <<bill_data, formatted_output, parsed_data, result, response, upload>>

Next ==
  \/ ProcessBill
  \/ SubmitText
  \/ ParseBillInput
  \/ CalculateSplit
  \/ ParseFailed
  \/ EndpointCalculateSplit
  \/ SplitBill
  \/ ReceiveUpload
  \/ ValidateUpload
  \/ ReadFile
  \/ InvokeLLM
  \/ GetModel

Spec == Init /\ [][Next]_vars

\* direct calls of the calculator
SpecSplit == Init /\ [][SplitBill]_vars

\* the formatter's text read back
NextCodec ==
  \/ ProcessBill
  \/ ParseBillInput
SpecCodec == Init /\ [][NextCodec]_vars

\* submitted texts parsed and split
NextText ==
  \/ SubmitText
  \/ ParseBillInput
  \/ CalculateSplit
  \/ ParseFailed
  \/ EndpointCalculateSplit
SpecText == Init /\ [][NextText]_vars

\* submitted texts parsed and split, and direct calls of the calculator
SpecCalls == Init /\ [][NextText \/ SplitBill]_vars

\* requests to POST /process
NextUpload ==
  \/ ReceiveUpload
  \/ ValidateUpload
  \/ ReadFile
  \/ InvokeLLM
SpecUpload == Init /\ [][NextUpload]_vars

\* calls of get_model
SpecFactory == Init /\ [][GetModel]_vars

(***************************************************************************)
(* Properties of calculate_split / split_instacart_bill.                   *)
(***************************************************************************)
\* amounts compared as numbers
REq(a, b) == a[1] * b[2] = b[1] * a[2]
\* |a - b| <= 0.01
Within001(a, b) == ~RLess(<<1, 100>>, RAbs(RSub(a, b)))

\* a split has been computed
SplitDone == pc = "done" /\ result # None /\ parsed_data # None /\ result.tag = "return"

\* the sum of the returned per-person amounts, and the bill's total
ReturnedSum == Sum(DictValues(result.person_total_bills))
BillTotal ==
  RAdd(RAdd(RAdd(Sum([i \in 1..Len(parsed_data.items) |-> parsed_data.items[i].price]),
                 DictGet(parsed_data.fees, TaxName)),
            DictGet(parsed_data.fees, DeliveryName)),
       DictGet(parsed_data.fees, TipName))

\* every item of items has an entry in item_shares with at least one sharer
EveryItemHasSharer ==
  \A i \in 1..Len(parsed_data.items) :
     /\ DictHas(parsed_data.item_shares, parsed_data.items[i].name)
     /\ DictGet(parsed_data.item_shares, parsed_data.items[i].name) # <<>>

\* the further conditions conservation rests on: at least one person; full names
\* non-empty and pairwise distinct; item names pairwise distinct; no negative
\* price; every sharer of an item a key of persons; Tax zero unless some item has
\* a positive price
ConservationInputs ==
  /\ parsed_data.persons # <<>>
  /\ Distinct(DictValues(parsed_data.persons))
  /\ \A i \in 1..Len(parsed_data.persons) : parsed_data.persons[i][2] # <<>>
  /\ Distinct([i \in 1..Len(parsed_data.items) |-> parsed_data.items[i].name])
  /\ \A i \in 1..Len(parsed_data.items) : ~RLess(parsed_data.items[i].price, Zero)
  /\ \A i \in 1..Len(parsed_data.items) :
       LET sharers == DictGetOr(parsed_data.item_shares, parsed_data.items[i].name, <<>>)
       IN \A k \in 1..Len(sharers) : DictHas(parsed_data.persons, sharers[k])
  /\ \/ REq(DictGet(parsed_data.fees, TaxName), Zero)
     \/ \E i \in 1..Len(parsed_data.items) : RLess(Zero, parsed_data.items[i].price)

\* C1 as stated: whenever every item has at least one sharer, the returned
\* per-person amounts sum to sum(item prices) + Tax + Delivery Fee + Tip within
\* 0.01.  It does not hold: with no item of positive price a non-zero Tax is
\* allocated to nobody.
ConservationAsClaimed ==
  SplitDone /\ EveryItemHasSharer => Within001(ReturnedSum, BillTotal)

\* C1, amended: whenever every item has at least one sharer and, besides, there
\* is at least one person, the full names are non-empty and pairwise distinct,
\* the item names are pairwise distinct, no price is negative, every listed
\* sharer is a key of persons and Tax is zero unless some item has a positive
\* price, the returned per-person amounts sum to sum(item prices) + Tax +
\* Delivery Fee + Tip within 0.01.
Conservation ==
  SplitDone /\ EveryItemHasSharer /\ ConservationInputs
    => Within001(ReturnedSum, BillTotal)

\* C1's case: two persons, an item of positive price that both share, a non-zero
\* Tax and non-zero other fees, and the amounts add up
ConservationWitness ==
  /\ SplitDone /\ EveryItemHasSharer /\ ConservationInputs
  /\ Len(parsed_data.persons) = 2
  /\ \E i \in 1..Len(parsed_data.items) :
       /\ RLess(Zero, parsed_data.items[i].price)
       /\ Len(DictGet(parsed_data.item_shares, parsed_data.items[i].name)) = 2
  /\ ~REq(DictGet(parsed_data.fees, TaxName), Zero)
  /\ ~REq(DictGet(parsed_data.fees, DeliveryName), Zero)
  /\ ~REq(result.equal_fee_share, Zero)
  /\ REq(ReturnedSum, BillTotal)

\* C10: whenever total_shared_item_cost > 0, each person's tax share times
\* total_shared_item_cost equals their item-cost total times Tax, and any two
\* persons with non-zero item-cost totals have the same ratio of tax share to
\* item-cost total, which is Tax / total_shared_item_cost.
TaxProportional ==
  SplitDone /\ RLess(Zero, result.total_shared_item_cost) =>
    LET cost == result.person_item_cost_shares
        tax == result.person_tax_shares
        total == result.total_shared_item_cost
        total_tax == DictGet(parsed_data.fees, TaxName)
    IN /\ DictKeys(tax) = DictKeys(cost)
       /\ \A p \in DictKeys(cost) :
            REq(RMul(DictGet(tax, p), total), RMul(DictGet(cost, p), total_tax))
       /\ \A p, q \in DictKeys(cost) :
            ~REq(DictGet(cost, p), Zero) /\ ~REq(DictGet(cost, q), Zero) =>
              /\ REq(RDiv(DictGet(tax, p), DictGet(cost, p)),
                     RDiv(DictGet(tax, q), DictGet(cost, q)))
              /\ REq(RDiv(DictGet(tax, p), DictGet(cost, p)), RDiv(total_tax, total))

\* C10's case: two persons with different non-zero item-cost totals and a
\* non-zero Tax, so that their tax shares differ
TaxProportionalWitness ==
  /\ SplitDone /\ RLess(Zero, result.total_shared_item_cost)
  /\ ~REq(DictGet(parsed_data.fees, TaxName), Zero)
  /\ Len(result.person_item_cost_shares) = 2
  /\ ~REq(result.person_item_cost_shares[1][2], Zero)
  /\ ~REq(result.person_item_cost_shares[2][2], Zero)
  /\ ~REq(result.person_item_cost_shares[1][2], result.person_item_cost_shares[2][2])
  /\ ~REq(result.person_tax_shares[1][2], result.person_tax_shares[2][2])

(***************************************************************************)
(* Properties of parse_bill_input, read off the text it was handed.        *)
(***************************************************************************)
\* parse_bill_input has returned
Parsed == pc = "parsed"

\* the header of a section occurs nowhere in the text
HeaderAbsent(input, sec) == Find(input, Hdr(sec), 1) = 0

\* the lines of the text, and the first line that is l (0 when there is none)
LinesOf(input) == Split(input, NL)
FirstLine(lines, l) ==
  IF \E i \in 1..Len(lines) : lines[i] = l
  THEN CHOOSE i \in 1..Len(lines) : lines[i] = l /\ \A j \in 1..(i - 1) : lines[j] # l
  ELSE 0
HeaderLine(input, sec) == FirstLine(LinesOf(input), Hdr(sec))

\* each of the four headers is one line of the text, once, and they come in the
\* order PERSONS, ITEMS, FEES, SHARES
HeadersInOrder(input) ==
  /\ \A k \in 1..4 :
       Cardinality({i \in 1..Len(LinesOf(input)) : LinesOf(input)[i] = Hdr(Sections[k])}) = 1
  /\ \A k \in 1..3 : HeaderLine(input, Sections[k]) < HeaderLine(input, Sections[k + 1])

\* the block of a section: the lines after its header and before the next
\* header (before the end of the text for SHARES), for a text with its headers
\* in order
Block(input, k) ==
  SubSeq(LinesOf(input), HeaderLine(input, Sections[k]) + 1,
         IF k = 4 THEN Len(LinesOf(input)) ELSE HeaderLine(input, Sections[k + 1]) - 1)

\* the name and the text before and after the first ':' of a line that has one
LineName(line) == Strip(SplitFirst(line, COLON)[1])
LineRest(line) == SplitFirst(line, COLON)[2]
\* the line has a ':' and the text after it is no number
BadAmount(line) == Contains(line, COLON) /\ FloatOf(Strip(LineRest(line))) = ValueError
CanonicalFees == {TaxName, DeliveryName, TipName}

\* the block has a line with a ':', an entry of its section
HasEntry(lines) == \E i \in 1..Len(lines) : Contains(lines[i], COLON)
\* no line of the ITEMS block, and no line of the FEES block that names a
\* canonical fee, has an amount that is no number
AmountsParse(input) ==
  /\ \A i \in 1..Len(Block(input, 2)) : ~BadAmount(Block(input, 2)[i])
  /\ \A i \in 1..Len(Block(input, 3)) :
       ~(BadAmount(Block(input, 3)[i]) /\ LineName(Block(input, 3)[i]) \in CanonicalFees)

\* C3: whenever one of the four section headers occurs nowhere in the input text,
\* parse_bill_input returns None (and so no partially filled bill).
MissingHeaderFails ==
  Parsed /\ (\E k \in 1..4 : HeaderAbsent(formatted_output, Sections[k]))
    => parsed_data = None

\* C3's case: the PERSONS header is misspelt, its person lines and the other
\* three sections are there, and the parse has failed
MissingHeaderWitness ==
  /\ Parsed
  /\ HeaderAbsent(formatted_output, "PERSONS")
  /\ Find(formatted_output, Hdr(Misspelt("PERSONS")), 1) # 0
  /\ \A k \in 2..4 : ~HeaderAbsent(formatted_output, Sections[k])
  /\ parsed_data = None

\* C4: whenever the four sections are found and no line of the PERSONS section
\* is a person entry (none has a ':'), parse_bill_input returns None.
NoPersonEntryFails ==
  Parsed /\ AllSections(formatted_output)
         /\ ~Contains(PersonsSection(formatted_output).group, COLON)
    => parsed_data = None

\* C4's case: the four sections are found, the PERSONS section has a line but
\* no person entry, the ITEMS and FEES sections are well-formed, and the parse
\* has failed
NoPersonEntryWitness ==
  /\ Parsed /\ AllSections(formatted_output)
  /\ Strip(PersonsSection(formatted_output).group) # <<>>
  /\ ~Contains(PersonsSection(formatted_output).group, COLON)
  /\ HeadersInOrder(formatted_output) /\ AmountsParse(formatted_output)
  /\ HasEntry(Block(formatted_output, 2))
  /\ parsed_data = None

\* the lines of the ITEMS and the FEES section parse_bill_input found
ItemsLines(input) == SectionLines(ItemsSection(input).group)
FeesLines(input) == SectionLines(FeesSection(input).group)

\* C5 as stated: whenever a line of the ITEMS section or a line of the FEES
\* section has after its first ':' a text that is no number, parse_bill_input
\* returns None.  It does not hold: a FEES line whose name is not Tax, Delivery
\* Fee or Tip is skipped without its amount being read.
BadNumberFailsAsClaimed ==
  Parsed /\ AllSections(formatted_output)
         /\ \/ \E i \in 1..Len(ItemsLines(formatted_output)) :
                 BadAmount(ItemsLines(formatted_output)[i])
            \/ \E i \in 1..Len(FeesLines(formatted_output)) :
                 BadAmount(FeesLines(formatted_output)[i])
    => parsed_data = None

\* C5, amended: whenever a line of the ITEMS section, or a line of the FEES
\* section whose name is Tax, Delivery Fee or Tip, has after its first ':' a
\* text that is no number, parse_bill_input returns None.
BadNumberFails ==
  Parsed /\ AllSections(formatted_output)
         /\ \/ \E i \in 1..Len(ItemsLines(formatted_output)) :
                 BadAmount(ItemsLines(formatted_output)[i])
            \/ \E i \in 1..Len(FeesLines(formatted_output)) :
                 /\ BadAmount(FeesLines(formatted_output)[i])
                 /\ LineName(FeesLines(formatted_output)[i]) \in CanonicalFees
    => parsed_data = None

\* C5's case: the sections are found, there is a person, every ITEMS line
\* parses, a Tip line has an amount that is no number, and the parse has failed
BadNumberWitness ==
  /\ Parsed /\ AllSections(formatted_output)
  /\ Contains(PersonsSection(formatted_output).group, COLON)
  /\ \A i \in 1..Len(ItemsLines(formatted_output)) : ~BadAmount(ItemsLines(formatted_output)[i])
  /\ \E i \in 1..Len(FeesLines(formatted_output)) :
       /\ BadAmount(FeesLines(formatted_output)[i])
       /\ LineName(FeesLines(formatted_output)[i]) = TipName
  /\ parsed_data = None

\* C6: in the bill of every successful parse, every key of item_shares is the
\* name of an entry of items, every abbreviation of every sharer list is a key
\* of persons, and no sharer list is empty.
ReferentialInvariant ==
  Parsed /\ parsed_data # None =>
    \A i \in 1..Len(parsed_data.item_shares) :
       LET item_name == parsed_data.item_shares[i][1]
           sharers == parsed_data.item_shares[i][2]
       IN /\ \E j \in 1..Len(parsed_data.items) : parsed_data.items[j].name = item_name
          /\ sharers # <<>>
          /\ \A k \in 1..Len(sharers) : DictHas(parsed_data.persons, sharers[k])

\* C6's case: a successful parse of a text whose SHARES section names an
\* abbreviation that is no person's and an item that is not in ITEMS, with an
\* entry left in item_shares
ReferentialWitness ==
  /\ Parsed /\ parsed_data # None
  /\ parsed_data.item_shares # <<>>
  /\ Contains(SharesSection(formatted_output).group, "X")
  /\ Contains(SharesSection(formatted_output).group, "cherries")
  /\ \A j \in 1..Len(parsed_data.items) : parsed_data.items[j].name # <<"cherries">>

\* a canonical fee is mentioned by a line of the FEES block
Mentioned(input, name) ==
  \E i \in 1..Len(Block(input, 3)) :
     Contains(Block(input, 3)[i], COLON) /\ LineName(Block(input, 3)[i]) = name

\* C7 as stated: every successful parse returns a fees map whose keys are exactly
\* Tax, Delivery Fee and Tip, a canonical fee the FEES section does not mention
\* has the value 0.0, and its absence never makes the parse fail: a text with its
\* four headers in order, a person entry, an item entry and no amount that fails
\* to parse is parsed, whichever canonical fees its FEES section leaves out.
\* The last part does not hold of the code: a FEES header that the SHARES header
\* follows on the next line, all three fees left out, makes the parse fail.
FeesDefaulted ==
  Parsed /\ HeadersInOrder(formatted_output) =>
    /\ parsed_data # None =>
         /\ DictKeys(parsed_data.fees) = CanonicalFees
         /\ Len(parsed_data.fees) = 3
         /\ \A name \in CanonicalFees :
              ~Mentioned(formatted_output, name) => DictGet(parsed_data.fees, name) = Zero
    /\ HasEntry(Block(formatted_output, 1)) /\ HasEntry(Block(formatted_output, 2))
         /\ AmountsParse(formatted_output)
       => parsed_data # None

\* the part of C7 that holds of the code: the keys of a successful parse's fees
\* map are exactly the three, and an unmentioned fee is 0.0
FeesKeysDefaulted ==
  Parsed /\ parsed_data # None =>
    /\ DictKeys(parsed_data.fees) = CanonicalFees
    /\ Len(parsed_data.fees) = 3
    /\ HeadersInOrder(formatted_output) =>
         \A name \in CanonicalFees :
            ~Mentioned(formatted_output, name) => DictGet(parsed_data.fees, name) = Zero

\* the lines of the SHARES section parse_bill_input found
SharesLines(input) == SectionLines(SharesSection(input).group)
\* the line names an item of the parsed items
NamesItem(line) ==
  /\ Contains(line, COLON)
  /\ \E j \in 1..Len(parsed_data.items) : parsed_data.items[j].name = LineName(line)
\* the abbreviations a share line lists, and those of them that are keys of the
\* parsed persons, in their listed order
RECURSIVE Trimmed(_)
Trimmed(parts) ==
  IF parts = <<>> THEN <<>>
  ELSE (IF Strip(Head(parts)) = <<>> THEN <<>> ELSE <<Strip(Head(parts))>>) \o Trimmed(Tail(parts))
Listed(line) == Trimmed(Split(LineRest(line), COMMA))
IsPersonKey(abbr) == \E i \in 1..Len(parsed_data.persons) : parsed_data.persons[i][1] = abbr
Kept(line) == SelectSeq(Listed(line), IsPersonKey)
\* what a share line leaves in item_shares, as C8 has it
StoredAsListed(line) ==
  IF Kept(line) # <<>>
  THEN /\ DictHas(parsed_data.item_shares, LineName(line))
       /\ DictGet(parsed_data.item_shares, LineName(line)) = Kept(line)
  ELSE ~DictHas(parsed_data.item_shares, LineName(line))
\* the text parses as far as its PERSONS, ITEMS and FEES sections go
ParsesButForShares(input) ==
  /\ AllSections(input)
  /\ Contains(PersonsSection(input).group, COLON)
  /\ \A i \in 1..Len(ItemsLines(input)) : ~BadAmount(ItemsLines(input)[i])
  /\ \A i \in 1..Len(FeesLines(input)) :
       ~(BadAmount(FeesLines(input)[i]) /\ LineName(FeesLines(input)[i]) \in CanonicalFees)

\* C8 as stated: for a share line whose item name is in ITEMS, the stored sharer
\* list is exactly the listed abbreviations that are keys of persons, in their
\* listed order; when none is, the item has no entry in item_shares; and the
\* parse does not fail.  It does not hold when another share line names the same
\* item: the later line with a valid sharer decides the entry.
ShareLineStoredAsClaimed ==
  Parsed /\ ParsesButForShares(formatted_output) =>
    /\ parsed_data # None
    /\ \A k \in 1..Len(SharesLines(formatted_output)) :
         NamesItem(SharesLines(formatted_output)[k])
           => StoredAsListed(SharesLines(formatted_output)[k])

\* C8, amended: for a share line whose item name is in ITEMS and that no other
\* share line names, the stored sharer list is exactly the listed abbreviations
\* that are keys of persons, in their listed order; when none is, the item has
\* no entry in item_shares; and the parse does not fail.
ShareLineStored ==
  Parsed /\ ParsesButForShares(formatted_output) =>
    /\ parsed_data # None
    /\ \A k \in 1..Len(SharesLines(formatted_output)) :
         /\ NamesItem(SharesLines(formatted_output)[k])
         /\ \A m \in 1..Len(SharesLines(formatted_output)) :
              m # k /\ Contains(SharesLines(formatted_output)[m], COLON)
                => LineName(SharesLines(formatted_output)[m])
                     # LineName(SharesLines(formatted_output)[k])
         => StoredAsListed(SharesLines(formatted_output)[k])

\* C8's case: one share line lists a person's abbreviation and an unknown one and
\* the person's alone is stored; another lists unknown ones only and its item has
\* no entry
ShareLineWitness ==
  /\ Parsed /\ ParsesButForShares(formatted_output) /\ parsed_data # None
  /\ \E k \in 1..Len(SharesLines(formatted_output)) :
       LET line == SharesLines(formatted_output)[k]
       IN /\ NamesItem(line)
          /\ Kept(line) # <<>> /\ Kept(line) # Listed(line)
          /\ DictGet(parsed_data.item_shares, LineName(line)) = Kept(line)
  /\ \E k \in 1..Len(SharesLines(formatted_output)) :
       LET line == SharesLines(formatted_output)[k]
       IN /\ NamesItem(line)
          /\ Listed(line) # <<>> /\ Kept(line) = <<>>
          /\ ~DictHas(parsed_data.item_shares, LineName(line))

\* C9 as stated: a text with its four headers in order, a person entry and no
\* item line between the ITEMS and the FEES header (and no fee amount that fails
\* to parse) is parsed into a bill with an empty items list.  It does not hold of
\* the code: an ITEMS header that the FEES header follows on the next line makes
\* the parse fail.
EmptyItemsNotFatal ==
  Parsed /\ HeadersInOrder(formatted_output)
         /\ HasEntry(Block(formatted_output, 1))
         /\ ~HasEntry(Block(formatted_output, 2))
         /\ AmountsParse(formatted_output)
    => parsed_data # None /\ parsed_data.items = <<>>

\* the part of C9 that holds of the code: when the ITEMS section is found and
\* yields no item, the parse returns a bill with an empty items list
EmptyItemsSectionNotFatal ==
  Parsed /\ AllSections(formatted_output)
         /\ Contains(PersonsSection(formatted_output).group, COLON)
         /\ ~Contains(ItemsSection(formatted_output).group, COLON)
         /\ AmountsParse(formatted_output) /\ HeadersInOrder(formatted_output)
    => parsed_data # None /\ parsed_data.items = <<>>

(***************************************************************************)
(* The formatter's text read back by parse_bill_input.                     *)
(***************************************************************************)
\* the text of a bill of process_bill has been parsed
ReadBack == pc = "parsed" /\ bill_data # None

\* the parsed fee is the bill's fee to two decimals: a whole number of cents at
\* most half a cent away
SameToCents(parsed_fee, fee) ==
  /\ (parsed_fee[1] * 100) % parsed_fee[2] = 0
  /\ ~RLess(<<1, 200>>, RAbs(RSub(parsed_fee, fee)))

\* the parse returned the bill's persons, items, fees to two decimals and
\* item_shares
SameBill ==
  /\ parsed_data # None
  /\ DictEq(parsed_data.persons, bill_data.persons)
  /\ parsed_data.items = bill_data.items
  /\ DictKeys(parsed_data.fees) = CanonicalFees
  /\ \A name \in CanonicalFees :
       SameToCents(DictGet(parsed_data.fees, name), DictGet(bill_data.fees, name))
  /\ DictEq(parsed_data.item_shares, bill_data.item_shares)

\* a name the parser reads back as written: not empty, no space at either end
Trim(name) == name # <<>> /\ Strip(name) = name

\* the bill is one parse_bill_input can return: at least one person; names
\* that are not empty and have no space at either end; every key of item_shares
\* the name of an item; every sharer list non-empty, of keys of persons
ParsedBillShape ==
  /\ bill_data.persons # <<>>
  /\ \A i \in 1..Len(bill_data.persons) :
       Trim(bill_data.persons[i][1]) /\ Trim(bill_data.persons[i][2])
  /\ \A i \in 1..Len(bill_data.items) : Trim(bill_data.items[i].name)
  /\ \A i \in 1..Len(bill_data.item_shares) :
       /\ \E j \in 1..Len(bill_data.items) :
            bill_data.items[j].name = bill_data.item_shares[i][1]
       /\ bill_data.item_shares[i][2] # <<>>
       /\ \A k \in 1..Len(bill_data.item_shares[i][2]) :
            DictHas(bill_data.persons, bill_data.item_shares[i][2][k])

TotalTax == DictGet(parsed_data.fees, TaxName)
TotalOtherFees == RAdd(DictGet(parsed_data.fees, DeliveryName), DictGet(parsed_data.fees, TipName))
NumPeople == Len(parsed_data.persons)
\* every tax share is 0
NoTaxShare ==
  \A i \in 1..Len(result.person_tax_shares) : REq(result.person_tax_shares[i][2], Zero)

\* C11 as stated: whenever total_shared_item_cost is 0 and Tax is not 0, of
\* either sign, every tax share is 0 and the 'tax is not allocated' warning is
\* emitted.  It does not hold of the code: for a negative Tax no warning is
\* emitted.
TaxNotAllocatedWarned ==
  SplitDone /\ REq(result.total_shared_item_cost, Zero) /\ ~REq(TotalTax, Zero)
    => NoTaxShare /\ "tax not allocated" \in result.warnings

\* the part of C11 that holds of the code: with total_shared_item_cost 0 every
\* tax share is 0, and the warning is emitted exactly when Tax is positive
TaxNotAllocated ==
  SplitDone /\ REq(result.total_shared_item_cost, Zero)
    => NoTaxShare /\ ("tax not allocated" \in result.warnings <=> RLess(Zero, TotalTax))

PriceOf(name) ==
  LET at == {j \in 1..Len(parsed_data.items) : parsed_data.items[j].name = name}
  IN IF at = {} THEN Zero
     ELSE parsed_data.items[CHOOSE j \in at : \A k \in at : k <= j].price
\* an item_shares entry with a positive price and at least one sharer
Counts(entry) == RLess(Zero, PriceOf(entry[1])) /\ entry[2] # <<>>
CountedShares == SelectSeq(parsed_data.item_shares, Counts)
\* C13: an item_shares entry whose price is <= 0 (or whose item is missing from
\* items) or whose sharer list is empty adds nothing: total_shared_item_cost is
\* the sum of the prices of the other entries, and the item-cost totals and
\* total_shared_item_cost are those of the bill without the entry.
UncountedEntryAddsNothing ==
  SplitDone =>
    LET counted == CountedShares
        split == ItemCostLoop(counted, parsed_data.persons,
                              ItemPriceLookup(parsed_data.items, <<>>),
                              [shares |-> ZeroShares(DictValues(parsed_data.persons), <<>>),
                               total |-> Zero])
    IN /\ REq(result.total_shared_item_cost,
              Sum([i \in 1..Len(counted) |-> PriceOf(counted[i][1])]))
       /\ split.shares = result.person_item_cost_shares
       /\ split.total = result.total_shared_item_cost

\* C13's case: one entry counts, and another, with a sharer listed who is a
\* person, does not because its price is negative
UncountedEntryWitness ==
  /\ SplitDone /\ Len(parsed_data.item_shares) = 2 /\ Len(CountedShares) = 1
  /\ \E i \in 1..2 :
       /\ RLess(PriceOf(parsed_data.item_shares[i][1]), Zero)
       /\ parsed_data.item_shares[i][2] # <<>>
       /\ DictHas(parsed_data.persons, parsed_data.item_shares[i][2][1])
  /\ RLess(Zero, result.total_shared_item_cost)

\* C14: a call never raises: it returns a map, also with zero persons, with an
\* empty sharer list, with an item_shares entry that names no item and with
\* total_shared_item_cost 0; the equal share is then 0 and every tax share 0.
NeverRaises ==
  pc = "done" /\ result # None =>
    /\ result.tag = "return"
    /\ NumPeople = 0 => REq(result.equal_fee_share, Zero)
    /\ REq(result.total_shared_item_cost, Zero) => NoTaxShare

\* C14's case: zero persons, fees and a Tax that are not 0, an entry with an
\* empty sharer list and an entry that names no item, and a map is returned
NeverRaisesWitness ==
  /\ SplitDone /\ NumPeople = 0
  /\ ~REq(TotalTax, Zero) /\ ~REq(TotalOtherFees, Zero)
  /\ \E i \in 1..Len(parsed_data.item_shares) : parsed_data.item_shares[i][2] = <<>>
  /\ \E i \in 1..Len(parsed_data.item_shares) :
       /\ parsed_data.item_shares[i][2] # <<>>
       /\ \A j \in 1..Len(parsed_data.items) :
            parsed_data.items[j].name # parsed_data.item_shares[i][1]
  /\ REq(result.total_shared_item_cost, Zero)
  /\ result.person_total_bills = <<>>

NotInShares(item) == ~DictHas(parsed_data.item_shares, item.name)
NamesNotInShares ==
  LET left == SelectSeq(parsed_data.items, NotInShares)
  IN [i \in 1..Len(left) |-> left[i].name]
\* every returned total is the person's item-cost total plus tax share plus the
\* equal share, whatever the verification found
TotalsAsComputed ==
  \A p \in DictKeys(result.person_total_bills) :
    REq(DictGet(result.person_total_bills, p),
        RAdd(RAdd(DictGet(result.person_item_cost_shares, p),
                  DictGet(result.person_tax_shares, p)),
             result.equal_fee_share))

\* C16: the mismatch warning is emitted exactly when the sum of the computed
\* totals differs from the sum of the item prices plus Tax, Delivery Fee and Tip
\* by more than 0.01; the unassigned list it logs holds the names of the items
\* that are no key of item_shares; and the returned totals are the computed ones
\* with or without the warning.
VerificationWarning ==
  SplitDone =>
    /\ "total mismatch" \in result.warnings <=> ~Within001(ReturnedSum, BillTotal)
    /\ "total mismatch" \in result.warnings => result.unassigned_items = NamesNotInShares
    /\ TotalsAsComputed
    /\ REq(result.calculated_total_bill, ReturnedSum)
    /\ REq(result.original_total_bill, BillTotal)

\* C16's case: the warning is emitted for a bill with an item that is no key of
\* item_shares and an item that is one, and both persons have a total
VerificationWarningWitness ==
  /\ SplitDone /\ "total mismatch" \in result.warnings
  /\ Len(result.unassigned_items) = 1 /\ Len(parsed_data.items) = 2
  /\ Len(CountedShares) = 1
  /\ Len(result.person_total_bills) = 2
  /\ RLess(Zero, ReturnedSum)

\* C17: a negative Tax is spread by the proportional formula, a negative
\* Delivery Fee + Tip by the equal-split formula, and a negative total of a
\* person is returned as computed.
NegativeFeesFlow ==
  SplitDone /\ (RLess(TotalTax, Zero) \/ RLess(TotalOtherFees, Zero)) =>
    /\ NumPeople > 0 => REq(RMul(result.equal_fee_share, <<NumPeople, 1>>), TotalOtherFees)
    /\ \A p \in DictKeys(result.person_total_bills) :
         /\ RLess(Zero, result.total_shared_item_cost) =>
              REq(RMul(DictGet(result.person_tax_shares, p), result.total_shared_item_cost),
                  RMul(DictGet(result.person_item_cost_shares, p), TotalTax))
         /\ REq(DictGet(result.person_total_bills, p),
                RAdd(RAdd(DictGet(result.person_item_cost_shares, p),
                          DictGet(result.person_tax_shares, p)),
                     result.equal_fee_share))

\* C17's case: Tax and Delivery Fee + Tip are negative, an item is shared, a
\* person's tax share is negative and a person's returned total is negative
NegativeFeesWitness ==
  /\ SplitDone /\ RLess(TotalTax, Zero) /\ RLess(TotalOtherFees, Zero)
  /\ RLess(Zero, result.total_shared_item_cost)
  /\ \E p \in DictKeys(result.person_total_bills) :
       RLess(DictGet(result.person_tax_shares, p), Zero)
  /\ \E p \in DictKeys(result.person_total_bills) :
       RLess(DictGet(result.person_total_bills, p), Zero)

\* the caller has answered, and not by an exception that escaped it
Answered == pc = "done" /\ response # None /\ "success" \in DOMAIN response

\* C18: in the /calculate-split endpoint and in step 3 of the app, when
\* parse_bill_input returned None the split is not computed and the caller
\* answers with a failure that carries an error text and no split; a success is
\* answered only with the totals of a split that was computed from a parsed bill.
ParseFailureSurfaced ==
  /\ pc = "done" /\ response # None /\ parsed_data = None =>
       /\ result = None
       /\ "success" \in DOMAIN response
       /\ response.caller \in {"endpoint", "app"}
       /\ response.success = FALSE
       /\ response.error # ""
       /\ response.splits = None
  /\ Answered /\ response.success =>
       /\ parsed_data # None
       /\ result # None
       /\ result.tag = "return"
       /\ response.splits = result.person_total_bills

\* C18's case in the endpoint: a text whose parse failed has been answered
ParseFailureWitness ==
  /\ Answered /\ parsed_data = None /\ formatted_output # <<>>
  /\ response.caller = "endpoint" /\ ~response.success /\ result = None

\* C18's case in the app
ParseFailureAppWitness ==
  /\ Answered /\ parsed_data = None /\ formatted_output # <<>>
  /\ response.caller = "app" /\ ~response.success /\ result = None

\* a share line of the text that names no item of the parsed items
GhostLine(line) == Contains(line, COLON) /\ ~NamesItem(line)
HasGhostLine == \E k \in 1..Len(SharesLines(formatted_output)) :
                  GhostLine(SharesLines(formatted_output)[k])
\* an item of the parsed items that is no key of item_shares and costs more
\* than 0.01
LeftUnassigned(j) ==
  /\ ~DictHas(parsed_data.item_shares, parsed_data.items[j].name)
  /\ RLess(<<1, 100>>, parsed_data.items[j].price)
\* no price and no fee of the parsed bill is negative
NothingNegative ==
  /\ \A j \in 1..Len(parsed_data.items) : ~RLess(parsed_data.items[j].price, Zero)
  /\ \A i \in 1..Len(parsed_data.fees) : ~RLess(parsed_data.fees[i][2], Zero)
\* the split of a parsed text has returned
TextSplit ==
  /\ pc = "done" /\ formatted_output # <<>> /\ parsed_data # None
  /\ result # None /\ result.tag = "return"

\* C19 as stated: when a share line names an item that is not in ITEMS the parse
\* does not fail, the line leaves no entry, and the split of the parsed bill
\* emits the mismatch warning.  It does not hold when every item of ITEMS is
\* named by another share line: nothing is left unassigned and no warning is
\* emitted.
GhostLineWarned ==
  TextSplit /\ HasGhostLine => "total mismatch" \in result.warnings

\* C19, amended: when a share line names an item that is not in ITEMS the parse
\* does not fail for it, the line leaves no entry in item_shares, an item that
\* no share line names has no entry, and the split of the parsed bill emits the
\* mismatch warning if an item costing more than 0.01 is left without an entry
\* and no price or fee is negative.
GhostLineDropped ==
  /\ pc \in {"parsed", "done"} /\ formatted_output # <<>>
       /\ ParsesButForShares(formatted_output) => parsed_data # None
  /\ pc \in {"parsed", "done"} /\ formatted_output # <<>> /\ parsed_data # None
       /\ HasGhostLine =>
       /\ \A k \in 1..Len(SharesLines(formatted_output)) :
            GhostLine(SharesLines(formatted_output)[k])
              => ~DictHas(parsed_data.item_shares, LineName(SharesLines(formatted_output)[k]))
       /\ \A j \in 1..Len(parsed_data.items) :
            (\A k \in 1..Len(SharesLines(formatted_output)) :
               Contains(SharesLines(formatted_output)[k], COLON)
                 => LineName(SharesLines(formatted_output)[k]) # parsed_data.items[j].name)
              => ~DictHas(parsed_data.item_shares, parsed_data.items[j].name)
  /\ TextSplit /\ HasGhostLine /\ NothingNegative
       /\ (\E j \in 1..Len(parsed_data.items) : LeftUnassigned(j))
       => "total mismatch" \in result.warnings

\* C19's case: the only share line names an item that is not in ITEMS and lists
\* a person, the item of ITEMS is left without an entry, and the split has
\* emitted the warning
GhostLineWitness ==
  /\ TextSplit /\ HasGhostLine /\ NothingNegative
  /\ Len(SharesLines(formatted_output)) = 1
  /\ Kept(SharesLines(formatted_output)[1]) # <<>>
  /\ Len(parsed_data.items) = 1 /\ LeftUnassigned(1)
  /\ parsed_data.item_shares = <<>>
  /\ "total mismatch" \in result.warnings
  /\ result.unassigned_items = <<parsed_data.items[1].name>>

\* the formatter has written the text of a bill
Formatted == pc = "formatted" /\ bill_data # None
\* the lines of the text under the SHARES header, the empty ones left out
NonEmptyLine(line) == line # <<>>
WrittenShareLines ==
  LET lines == LinesOf(formatted_output)
  IN SelectSeq(SubSeq(lines, HeaderLine(formatted_output, "SHARES") + 1, Len(lines)),
               NonEmptyLine)
\* the written share lines of an item: those whose text before ':' is its name
LinesFor(name) ==
  {k \in 1..Len(WrittenShareLines) : SplitFirst(WrittenShareLines[k], COLON)[1] = name}
\* an entry of the bill's item_shares that lists a key of the bill's persons
ListsValidSharer(entry) ==
  \E k \in 1..Len(entry[2]) : DictHas(bill_data.persons, entry[2][k])

\* C20 as stated: the SHARES section of the formatter's text has one line per
\* item with at least one valid sharer, and no line for an item whose sharer
\* list is empty.  It does not hold of the code: the formatter writes a line for
\* every entry of item_shares, an empty sharer list included.
ShareLinePerSharedItem ==
  Formatted =>
    \A i \in 1..Len(bill_data.item_shares) :
      /\ ListsValidSharer(bill_data.item_shares[i])
           => Cardinality(LinesFor(bill_data.item_shares[i][1])) = 1
      /\ bill_data.item_shares[i][2] = <<>> => LinesFor(bill_data.item_shares[i][1]) = {}

\* what holds of the code: the SHARES section has one line per entry of
\* item_shares, in the order of the entries, made of the item name, ': ' and the
\* sharers joined by ', '
ShareLinePerEntry ==
  Formatted =>
    /\ Len(WrittenShareLines) = Len(bill_data.item_shares)
    /\ \A i \in 1..Len(bill_data.item_shares) :
         /\ SplitFirst(WrittenShareLines[i], COLON)[1] = bill_data.item_shares[i][1]
         /\ SplitFirst(WrittenShareLines[i], COLON)[2]
              = <<SP>> \o Join(bill_data.item_shares[i][2], <<COMMA, SP>>)

\* the amounts of the first n fees of a list added up
RECURSIVE AddUp(_, _)
AddUp(fee_items, n) ==
  IF n = 0 THEN Zero ELSE RAdd(AddUp(fee_items, n - 1), fee_items[n].amount)
AmountsOf(fee_items) == AddUp(fee_items, Len(fee_items))

\* C21: calculate_totals returns a map with exactly the keys Tax, Delivery Fee
\* and Tip, each the sum of the amounts of tax_items, delivery_items and
\* tip_items (0 for an empty list), and the three values add up to the sum of
\* the amounts of all fees of the three lists.
TotalsPerCategory ==
  Formatted =>
    /\ Len(bill_data.fees) = 3
    /\ DictKeys(bill_data.fees) = {TaxName, DeliveryName, TipName}
    /\ REq(DictGet(bill_data.fees, TaxName), AmountsOf(bill_data.raw_fees.tax_items))
    /\ REq(DictGet(bill_data.fees, DeliveryName), AmountsOf(bill_data.raw_fees.delivery_items))
    /\ REq(DictGet(bill_data.fees, TipName), AmountsOf(bill_data.raw_fees.tip_items))
    /\ \A i \in 1..3 :
         (i = 1 /\ bill_data.raw_fees.tax_items = <<>>)
           \/ (i = 2 /\ bill_data.raw_fees.delivery_items = <<>>)
           \/ (i = 3 /\ bill_data.raw_fees.tip_items = <<>>)
           => bill_data.fees[i][2] = Zero
    /\ REq(RAdd(RAdd(bill_data.fees[1][2], bill_data.fees[2][2]), bill_data.fees[3][2]),
           AmountsOf(AllFees(bill_data.raw_fees)))

\* C21's case: two tax fees, two delivery fees, one of them a discount, and no
\* tip fee have been totalled
TotalsPerCategoryWitness ==
  /\ Formatted
  /\ Len(bill_data.raw_fees.tax_items) = 2 /\ Len(bill_data.raw_fees.delivery_items) = 2
  /\ bill_data.raw_fees.tip_items = <<>>
  /\ \E i \in 1..2 : RLess(bill_data.raw_fees.delivery_items[i].amount, Zero)
  /\ DictGet(bill_data.fees, TipName) = Zero
  /\ ~REq(DictGet(bill_data.fees, TaxName), bill_data.raw_fees.tax_items[1].amount)

\* how often a fee occurs in a list of fees
Occurrences(fee, fee_items) == Cardinality({i \in 1..Len(fee_items) : fee_items[i] = fee})
\* two lists hold the same fees, each as often
SameFees(a, b) ==
  \A fee \in {a[i] : i \in 1..Len(a)} \cup {b[i] : i \in 1..Len(b)} :
    Occurrences(fee, a) = Occurrences(fee, b)

\* C24 as stated: after the categorization step the fees of bill_data.raw_fees
\* are exactly the fees the bill parser extracted, whatever the categorizer
\* returned.  It does not hold of the code: a categorizer result with as many
\* fees as were extracted is taken over even when its fees are others.
FeesAsExtracted ==
  Formatted => SameFees(AllFees(bill_data.raw_fees), bill_data.all_raw_fees)

\* what holds of the code: bill_data.raw_fees has as many fees as were
\* extracted, and a categorizer result with another number of fees is
\* discarded and the extracted categorization kept
FeeCountKept ==
  Formatted =>
    /\ Len(AllFees(bill_data.raw_fees)) = Len(bill_data.all_raw_fees)
    /\ Len(bill_data.categorized_fees) # Len(bill_data.all_raw_fees)
         => AllFees(bill_data.raw_fees) = bill_data.all_raw_fees
    /\ Len(bill_data.categorized_fees) = Len(bill_data.all_raw_fees)
         => AllFees(bill_data.raw_fees) = bill_data.categorized_fees

\* the header of a section occurs in the text exactly once
OccursOnce(input, sec) ==
  /\ Find(input, Hdr(sec), 1) > 0
  /\ Find(input, Hdr(sec), Find(input, Hdr(sec), 1) + 1) = 0
\* the four headers, each occurring once, come in another order than PERSONS,
\* ITEMS, FEES, SHARES
OutOfOrder(input) ==
  /\ \A k \in 1..4 : OccursOnce(input, Sections[k])
  /\ \E k \in 1..3 :
       Find(input, Hdr(Sections[k + 1]), 1) < Find(input, Hdr(Sections[k]), 1)

\* C22: for a text in which each of the four headers occurs exactly once but
\* not in the order PERSONS, ITEMS, FEES, SHARES, parse_bill_input returns
\* None.
WrongOrderFails ==
  pc \in {"parsed", "done"} /\ formatted_output # <<>> /\ OutOfOrder(formatted_output)
    => parsed_data = None

\* C22's case: the text has the PERSONS section, with its person lines, after
\* the FEES section and before the SHARES section, and the parse has failed
WrongOrderWitness ==
  /\ Parsed /\ OutOfOrder(formatted_output) /\ parsed_data = None
  /\ Find(formatted_output, Hdr("ITEMS"), 1) < Find(formatted_output, Hdr("FEES"), 1)
  /\ Find(formatted_output, Hdr("FEES"), 1) < Find(formatted_output, Hdr("PERSONS"), 1)
  /\ Find(formatted_output, Hdr("PERSONS"), 1) < Find(formatted_output, Hdr("SHARES"), 1)
  /\ Find(formatted_output, Line(<<"V">>, <<"Vikram">>), 1)
       > Find(formatted_output, Hdr("PERSONS"), 1)

\* the bill of the scenario: Vikram and Aniket share one item of 11.98, Tax is
\* 0.20 and there are no other fees
ScenarioBill ==
  /\ parsed_data.persons = << <<(<<"V">>), <<"Vikram">> >>, <<(<<"A">>), <<"Aniket">> >> >>
  /\ Len(parsed_data.items) = 1
  /\ parsed_data.items[1].price = <<599, 50>>
  /\ parsed_data.item_shares = << <<parsed_data.items[1].name, << <<"V">>, <<"A">> >> >> >>
  /\ REq(TotalTax, <<1, 5>>) /\ REq(TotalOtherFees, Zero)
  /\ REq(DictGet(parsed_data.fees, TipName), Zero)

\* C23: each returned amount is the person's item-cost total plus tax share
\* plus the equal share of the other fees; and for Vikram and Aniket sharing
\* one item of 11.98 with Tax 0.20 and no other fees, both are returned 6.09,
\* that is 5.99 + 0.10.
TotalIsSumOfParts ==
  SplitDone =>
    /\ DictKeys(result.person_total_bills) = DictKeys(result.person_item_cost_shares)
    /\ \A i \in 1..Len(result.person_total_bills) :
         LET p == result.person_total_bills[i][1]
         IN REq(RSub(result.person_total_bills[i][2], DictGet(result.person_tax_shares, p)),
                RAdd(DictGet(result.person_item_cost_shares, p), result.equal_fee_share))
    /\ ScenarioBill =>
         /\ Len(result.person_total_bills) = 2
         /\ \A p \in {<<"Vikram">>, <<"Aniket">>} :
              /\ REq(DictGet(result.person_total_bills, p), <<609, 100>>)
              /\ REq(DictGet(result.person_item_cost_shares, p), <<599, 100>>)
              /\ REq(DictGet(result.person_tax_shares, p), <<1, 10>>)

\* C23's case: the split of the scenario's bill has returned
TotalIsSumOfPartsWitness ==
  /\ SplitDone /\ ScenarioBill
  /\ REq(ReturnedSum, <<1218, 100>>)

\* the sum of the persons' item-cost totals
ItemCostSum == Sum(DictValues(result.person_item_cost_shares))
\* every abbreviation an entry of item_shares lists is a key of persons_map with
\* a full name that is not empty
SharersKnown ==
  \A i \in 1..Len(parsed_data.item_shares) :
    \A k \in 1..Len(parsed_data.item_shares[i][2]) :
      /\ DictHas(parsed_data.persons, parsed_data.item_shares[i][2][k])
      /\ DictGet(parsed_data.persons, parsed_data.item_shares[i][2][k]) # <<>>

\* C27 as stated: where the tax is distributed, the persons' item-cost totals
\* add up to total_shared_item_cost, for every input.  It does not hold of the
\* code: the price of an entry that counts is added to total_shared_item_cost
\* whole, also when a sharer it lists is passed over.
ItemTotalsAddUp ==
  SplitDone => REq(ItemCostSum, result.total_shared_item_cost)

\* what holds of the code: the item-cost totals add up to
\* total_shared_item_cost when every listed sharer is a key of persons_map with
\* a full name, and never to more
ItemTotalsAddUpForKnownSharers ==
  SplitDone =>
    /\ SharersKnown => REq(ItemCostSum, result.total_shared_item_cost)
    /\ ~RLess(result.total_shared_item_cost, ItemCostSum)

\* the distinct full names of persons_map
FullNames == {parsed_data.persons[i][2] : i \in 1..NumPeople}
\* how many of an entry's sharers have the full name p, and the item-cost total
\* of p: over the entries that count, the cost per sharer once per such sharer
SharersNamed(entry, p) ==
  Cardinality({k \in 1..Len(entry[2]) :
                 /\ DictHas(parsed_data.persons, entry[2][k])
                 /\ DictGet(parsed_data.persons, entry[2][k]) = p})
MergedItemCost(p) ==
  IF p = <<>> THEN Zero
  ELSE Sum([i \in 1..Len(CountedShares) |->
              RMul(RDiv(PriceOf(CountedShares[i][1]), <<Len(CountedShares[i][2]), 1>>),
                   <<SharersNamed(CountedShares[i], p), 1>>)])

\* C29: the returned map has one key per distinct full name of persons_map;
\* the item-cost total and tax share of a full name are those of all its
\* abbreviations together; the equal share is Delivery Fee + Tip divided by the
\* number of abbreviations; and a full name is charged the equal share once.
OneKeyPerFullName ==
  SplitDone =>
    /\ DictKeys(result.person_total_bills) = FullNames
    /\ Len(result.person_total_bills) = Cardinality(FullNames)
    /\ NumPeople > 0 => REq(RMul(result.equal_fee_share, <<NumPeople, 1>>), TotalOtherFees)
    /\ \A p \in FullNames :
         /\ REq(DictGet(result.person_item_cost_shares, p), MergedItemCost(p))
         /\ RLess(Zero, result.total_shared_item_cost) =>
              REq(RMul(DictGet(result.person_tax_shares, p), result.total_shared_item_cost),
                  RMul(MergedItemCost(p), TotalTax))
         /\ REq(DictGet(result.person_total_bills, p),
                RAdd(RAdd(MergedItemCost(p), DictGet(result.person_tax_shares, p)),
                     result.equal_fee_share))

\* C29's case: two abbreviations of one full name share an item, Tax and the
\* other fees are not 0, and the one key of the map is charged the whole item,
\* the whole Tax and half of the other fees
OneKeyPerFullNameWitness ==
  /\ SplitDone /\ NumPeople = 2 /\ Cardinality(FullNames) = 1 /\ FullNames # {<<>>}
  /\ Len(result.person_total_bills) = 1
  /\ Len(CountedShares) = 1 /\ Len(CountedShares[1][2]) = 2
  /\ ~REq(TotalTax, Zero) /\ ~REq(TotalOtherFees, Zero)
  /\ REq(result.person_item_cost_shares[1][2], PriceOf(CountedShares[1][1]))
  /\ REq(result.person_tax_shares[1][2], TotalTax)
  /\ REq(RMul(RSub(RSub(result.person_total_bills[1][2], PriceOf(CountedShares[1][1])),
                   TotalTax), <<2, 1>>),
         TotalOtherFees)

PersonsLines(input) == SectionLines(PersonsSection(input).group)
\* the lines of `lines` that have a ':' and the name `name`, and the last of
\* the lines of the set `at` (0 when it is empty)
LinesNamed(lines, name) ==
  {k \in 1..Len(lines) : Contains(lines[k], COLON) /\ LineName(lines[k]) = name}
LastOf(at) == IF at = {} THEN 0 ELSE CHOOSE k \in at : \A m \in at : m <= k
\* the share lines naming the item that list a key of persons
LinesWithSharer(lines, name) == {k \in LinesNamed(lines, name) : Kept(lines[k]) # <<>>}
\* the parse of a text has returned a bill
TextParsed == pc \in {"parsed", "done"} /\ formatted_output # <<>> /\ parsed_data # None

\* C30: a key that lines of the text repeat has the value of the last line: an
\* abbreviation of PERSONS the last full name, a canonical fee of FEES the last
\* amount, and an item of SHARES the sharers of the last line that lists a valid
\* sharer, also when a later line lists none.
LastLineWins ==
  TextParsed =>
    /\ \A i \in 1..Len(parsed_data.persons) :
         LET lines == PersonsLines(formatted_output)
             last == LastOf(LinesNamed(lines, parsed_data.persons[i][1]))
         IN last > 0 /\ parsed_data.persons[i][2] = Strip(LineRest(lines[last]))
    /\ \A name \in CanonicalFees :
         LET lines == FeesLines(formatted_output)
             last == LastOf(LinesNamed(lines, name))
         IN IF last = 0 THEN DictGet(parsed_data.fees, name) = Zero
            ELSE /\ FloatOf(Strip(LineRest(lines[last]))) # ValueError
                 /\ DictGet(parsed_data.fees, name) = FloatOf(Strip(LineRest(lines[last]))).val
    /\ \A j \in 1..Len(parsed_data.items) :
         LET lines == SharesLines(formatted_output)
             name == parsed_data.items[j].name
             last == LastOf(LinesWithSharer(lines, name))
         IN IF last = 0 THEN ~DictHas(parsed_data.item_shares, name)
            ELSE /\ DictHas(parsed_data.item_shares, name)
                 /\ DictGet(parsed_data.item_shares, name) = Kept(lines[last])

\* C30's case in PERSONS and SHARES: two lines give one abbreviation two full
\* names and the second is kept, and of two share lines of one item the first
\* lists a valid sharer and the second none, and the entry of the first stays
LastLineWinsWitness ==
  /\ TextParsed
  /\ \E i \in 1..Len(parsed_data.persons) :
       LET lines == PersonsLines(formatted_output)
           at == LinesNamed(lines, parsed_data.persons[i][1])
       IN /\ Cardinality(at) = 2
          /\ \E k \in at : Strip(LineRest(lines[k])) # parsed_data.persons[i][2]
  /\ \E j \in 1..Len(parsed_data.items) :
       LET lines == SharesLines(formatted_output)
           name == parsed_data.items[j].name
       IN /\ Cardinality(LinesNamed(lines, name)) = 2
          /\ Cardinality(LinesWithSharer(lines, name)) = 1
          /\ LastOf(LinesWithSharer(lines, name)) < LastOf(LinesNamed(lines, name))
          /\ DictHas(parsed_data.item_shares, name)

\* C30's case in FEES: two lines give Tax two amounts and the second is kept
LastFeeWinsWitness ==
  /\ TextParsed
  /\ LET lines == FeesLines(formatted_output)
         at == LinesNamed(lines, TaxName)
     IN /\ Cardinality(at) = 2
        /\ \E k \in at : FloatOf(Strip(LineRest(lines[k]))).val # DictGet(parsed_data.fees, TaxName)
        /\ DictGet(parsed_data.fees, TaxName) = FloatOf(Strip(LineRest(lines[LastOf(at)]))).val

\* C30's case of two share lines with valid sharers: the lines of one item
\* list valid sharers, not the same, and the second line's are kept
LastSharersWinWitness ==
  /\ TextParsed
  /\ \E j \in 1..Len(parsed_data.items) :
       LET lines == SharesLines(formatted_output)
           at == LinesWithSharer(lines, parsed_data.items[j].name)
       IN /\ Cardinality(at) = 2
          /\ \E k \in at : Kept(lines[k])
                             # DictGet(parsed_data.item_shares, parsed_data.items[j].name)

\* C28: the two implementations agree: for every text parse_bill_input of
\* bill_splitter.py and parse_bill_input of bill_parser.py return the same bill
\* or both None, and for every persons, items, fees and item_shares
\* calculate_split and split_instacart_bill return the same map of totals.
ImplementationsAgree ==
  /\ pc \in {"parsed", "done"} /\ formatted_output # <<>> =>
       /\ parsed_data = parse_bill_input(formatted_output)
       /\ bill_parser_parse_bill_input(formatted_output) = parsed_data
  /\ pc = "done" /\ result # None =>
       /\ result.tag = "return"
       /\ split_instacart_bill(parsed_data.persons, parsed_data.items, parsed_data.fees,
                               parsed_data.item_shares) = result.person_total_bills

\* C28's case: a text with a share line of an unknown sharer and one of an
\* unknown item has been parsed to a bill by both, and the split of the bill,
\* with an item left unassigned, has returned totals that are not 0
ImplementationsAgreeWitness ==
  /\ TextSplit
  /\ bill_parser_parse_bill_input(formatted_output) # None
  /\ HasGhostLine
  /\ \E k \in 1..Len(SharesLines(formatted_output)) :
       /\ NamesItem(SharesLines(formatted_output)[k])
       /\ Kept(SharesLines(formatted_output)[k]) # Listed(SharesLines(formatted_output)[k])
       /\ Kept(SharesLines(formatted_output)[k]) # <<>>
  /\ Len(parsed_data.items) = 2 /\ Len(parsed_data.item_shares) = 1
  /\ RLess(Zero, ReturnedSum)

\* C28's case of a direct call: both have returned the totals of a bill with
\* two abbreviations of one name, a sharer that is no key of persons_map and
\* negative fees
DirectCallsAgreeWitness ==
  /\ SplitDone /\ formatted_output = <<>>
  /\ NumPeople = 2 /\ Cardinality(FullNames) = 1
  /\ RLess(TotalTax, Zero) /\ RLess(TotalOtherFees, Zero)
  /\ Len(CountedShares) >= 1
  /\ split_instacart_bill(parsed_data.persons, parsed_data.items, parsed_data.fees,
                          parsed_data.item_shares) = result.person_total_bills

\* C28's case of a failing parse: both return None for a text with an amount
\* that is no number
BothParsesFailWitness ==
  /\ Parsed /\ formatted_output # <<>> /\ parsed_data = None
  /\ bill_parser_parse_bill_input(formatted_output) = None
  /\ HeadersInOrder(formatted_output)
  /\ ~AmountsParse(formatted_output)

(***************************************************************************)
(* Properties of POST /process and of llm_factory.                         *)
(***************************************************************************)
\* a file of the request fails a check of the validation loop
SomeFileRefused ==
  \E k \in 1..Len(upload.files) :
    \/ upload.files[k].content_type \notin allowed_file_types
    \/ upload.files[k].size > max_file_size
UploadAnswered == pc = "answered" /\ upload # None /\ upload.response # None

\* C25: a request to POST /process with a file whose content type is not in
\* allowed_file_types or whose size exceeds max_file_size is answered with the
\* HTTP status 400, and no file content has been read and the LLM service has
\* not been invoked when it is answered.
RefusedUploadAnswered400 ==
  UploadAnswered /\ SomeFileRefused =>
    /\ upload.response.status_code = 400
    /\ upload.content_read = 0
    /\ ~upload.llm_invoked

\* what holds of such a request: it is answered with the status 200 and a body
\* with success=False that carries the HTTPException of status_code 400, and
\* nothing has been read and the LLM service has not been invoked
RefusedUploadFailsUnread ==
  UploadAnswered /\ SomeFileRefused =>
    /\ upload.response.status_code = 200
    /\ ~upload.response.success
    /\ upload.response.error.class = "HTTPException"
    /\ upload.response.error.status_code = 400
    /\ upload.content_read = 0
    /\ ~upload.llm_invoked

\* the case of the refused upload: a request with an allowed first file of the
\* largest allowed size and a second file that is too large has been answered
RefusedUploadWitness ==
  /\ UploadAnswered
  /\ Len(upload.files) = 2
  /\ upload.files[1].content_type \in allowed_file_types
  /\ upload.files[1].size = max_file_size
  /\ upload.files[2].content_type \in allowed_file_types
  /\ upload.files[2].size > max_file_size
  /\ ~upload.response.success

\* the instances of a kind the constructors have returned for a key
MadeFor(kind, key) == {i \in 1..Len(made) : made[i].kind = kind /\ made[i].key = key}
\* the last call of get_model found its key in _model_cache
LastCallCached ==
  /\ last_call.n > 0
  /\ last_call.provider_type = AZURE_OPENAI
  /\ DictHas(last_call.model_cache_before,
             CacheKey(last_call.provider_type, last_call.model_name))

\* C26: over any sequence of get_model calls at most one model is created per
\* key '<provider>:<model_name>' and at most one client per key
\* '<endpoint>:<api_version>', and each is stored under its key; a call for a
\* cached key returns the stored instance and creates nothing; a call that
\* raises leaves _model_cache unchanged.
CacheUniqueness ==
  /\ \A i \in 1..Len(made) :
       /\ MadeFor(made[i].kind, made[i].key) = {i}
       /\ LET cache == IF made[i].kind = "model" THEN model_cache ELSE client_cache
          IN DictHas(cache, made[i].key) /\ DictGet(cache, made[i].key) = made[i]
  /\ Len(model_cache) + Len(client_cache) = Len(made)
  /\ LastCallCached =>
       /\ last_call.outcome = "return"
       /\ last_call.value = DictGet(last_call.model_cache_before,
                                    CacheKey(last_call.provider_type, last_call.model_name))
       /\ made = last_call.made_before
       /\ model_cache = last_call.model_cache_before
       /\ client_cache = last_call.client_cache_before
  /\ last_call.n > 0 /\ last_call.outcome = "raise" =>
       model_cache = last_call.model_cache_before

\* C26's case: after a call that raised when its client had been stored and a
\* call that stored a model with a second client, a third call has returned
\* the stored model
CacheUniquenessWitness ==
  /\ LastCallCached
  /\ last_call.n = 3
  /\ Len(client_cache) = 2
  /\ Len(model_cache) = 1
  /\ last_call.value.kind = "model"
  /\ last_call.value.id = 3

\* C26's case of a failing call: OpenAIModel raised after the client was stored
FailedCallWitness ==
  /\ last_call.n > 0 /\ last_call.outcome = "raise"
  /\ last_call.value.class = "TypeError"
  /\ Len(client_cache) = Len(last_call.client_cache_before) + 1
  /\ model_cache = <<>>

====
